---- MODULE Spec2Model ----
(***************************************************************************)
(* Model of the anti-bot fetch pipeline of dynamic_web_scraper:            *)
(* RetryHandler, RequestThrottler, CaptchaDetector (src/src/antibot.py and *)
(* the inlined copies in advanced_scraper.py / final_antibot_scraper.py)   *)
(* and the fetch loops built on them.                                      *)
(*                                                                         *)
(* Times are integers in milliseconds.  A random.uniform draw is a choice  *)
(* of one of finitely many evenly spaced points of the interval.           *)
(***************************************************************************)
EXTENDS Integers, Sequences, FiniteSets, TLC

VARIABLES
    rh,        \* the RetryHandler under test: its constructor arguments
    rh_call,   \* the last RetryHandler method call: arguments and result
    th,        \* the RequestThrottler: its constructor arguments
    now,       \* datetime.now(), in milliseconds since the throttler was built
    request_times,       \* RequestThrottler.request_times
    consecutive_errors,  \* RequestThrottler.consecutive_errors
    errors_since_success,  \* record_error() calls since the last record_success() (observer)
    history,   \* every timestamp wait() ever recorded, in order (observer)
    slept,     \* what the last wait() slept, and after how many recorded errors (observer)
    cd_call,   \* the last CaptchaDetector / is_blocked call: arguments and result
    impl,      \* which fetch function runs: "final", "advanced", "basic", "execute_with_retry"
    max_retries,  \* its retry cap (max_retries / RETRY_ATTEMPTS)
    pc,        \* where the fetch is: "start", "get", "sleep", "done"
    cur_attempt,  \* the loop variable attempt (retry_count in WebScraper.fetch_page)
    responses, \* what the transport answered to each GET so far (observer)
    events,    \* the "wait", "get" and "sleep" calls so far, in order (observer)
    backoff,   \* the delay of the last backoff sleep (observer)
    stats,     \* Stats / the stats dict
    result,    \* what the fetch returned: "pending", "html", "None", "raised"
    driver,    \* which script's main() runs: "final", "advanced", "main", "run_scraper", "db_scraper"
    page_cap,  \* MAX_PAGES / max_pages
    pg_pc,     \* where main() is: "loop", "break", "done", "raised"
    current_url,  \* the page current_url points at: 1 is BASE_URL
    page_number,  \* page_number (pages_scraped in db_scraper)
    all_quotes,   \* all_quotes
    fetched,   \* the outcome of each fetch_page call so far, in order (observer)
    saved,     \* what was written to the CSV / JSON files
    session,   \* the scraping_sessions row of db_scraper and its running totals
    db,        \* the SQLite database: tables quotes, authors, tags, quote_tags
    db_log,    \* every insert_quote call so far: text and result (observer)
    db_call,   \* the last insert_quotes_batch call: arguments and result
    pr,        \* the ProxyRotator: proxies, current_index, failed_proxies, proxy_stats
    pr_call,   \* the last ProxyRotator method call: arguments and result
    pr_marks,  \* how often mark_failed / mark_success was called per proxy (observer)
    scrapers,   \* the AntiBotScraper instances: each one's throttler, proxy_rotator and stats
    Stats,   \* the class attributes of final_antibot_scraper.Stats
    runs,   \* the threads calling final_antibot_scraper.fetch_with_retry: position and locals
    actor,  \* the instance or thread that took the last step, and the calls made on the scrapers (observer)
    conns,   \* the connections of the insert_quote calls in progress: position, locals, uncommitted changes
    writer   \* the connection that holds the write lock of the database file: 0 is none

retryVars == <<rh, rh_call>>

throttleVars == <<th, now, request_times, consecutive_errors, errors_since_success,
                  history, slept>>

classifyVars == <<cd_call>>

fetchVars == <<impl, max_retries, pc, cur_attempt, responses, events, backoff, stats, result>>

pageVars == <<driver, page_cap, pg_pc, current_url, page_number, all_quotes,
              fetched, saved, session>>

storeVars == <<db, db_log, db_call>>

proxyVars == <<pr, pr_call, pr_marks>>

instanceVars == <<scrapers, Stats, runs, actor>>

txVars == <<conns, writer>>

vars == <<rh, rh_call, th, now, request_times, consecutive_errors,
          errors_since_success, history, slept,
          cd_call, impl, max_retries, pc, cur_attempt, responses, events, backoff, stats,
          result, driver, page_cap, pg_pc, current_url, page_number, all_quotes,
          fetched, saved, session, db, db_log, db_call, pr, pr_call, pr_marks,
          scrapers, Stats, runs, actor,
          conns, writer>>

(***************************************************************************)
(* Bounds of the model.                                                    *)
(***************************************************************************)
MaxRetriesBound == 3   \* max_retries ranges over 0..MaxRetriesBound
MaxAttempt == 7        \* attempt ranges over 0..MaxAttempt
JitterSteps == 2       \* random.uniform(-1, 1) is k / JitterSteps, k in -JitterSteps..JitterSteps
MaxRpm == 2            \* requests_per_minute ranges over 1..MaxRpm
MaxCalls == 3          \* wait() is called at most MaxCalls times
MaxErrors == 1         \* record_error() is not called past MaxErrors consecutive errors
MaxIdle == 60000       \* the caller lets time pass between calls while now < MaxIdle
DelaySteps == 1        \* random.uniform(min_delay, max_delay) is one of DelaySteps + 1 points
MaxInserts == 4        \* insert_quote runs at most MaxInserts times
MaxBatch == 2          \* insert_quotes_batch gets at most MaxBatch quotes
MaxPageCap == 3        \* MAX_PAGES ranges over 0..MaxPageCap
MaxProxies == 2        \* the proxy pool holds at most MaxProxies proxies
MaxMarks == 2          \* mark_failed and mark_success are called at most MaxMarks times in all
MaxOps == 4            \* at most MaxOps calls are made on the AntiBotScraper instances in all
MaxFetches == 2        \* a run makes at most MaxFetches fetches
MaxStatRetries == 2    \* max_retries ranges over 0..MaxStatRetries in the runs that count fetches

(***************************************************************************)
(* RetryHandler (src/src/antibot.py)                                       *)
(***************************************************************************)

\* status_code: int = None; the absent status code
NoStatus == -1

\* the status codes a call may pass: none, 0 and every HTTP status
StatusCodes == {NoStatus, 0} \cup (100..599)

\* Python truthiness of "status_code": None and 0 are falsy
Truthy(status_code) == status_code # NoStatus /\ status_code # 0

\* retryable_codes = {408, 429, 500, 502, 503, 504}
retryable_codes == {408, 429, 500, 502, 503, 504}

RECURSIVE Pow(_, _)
\* exponential_base ** attempt
Pow(b, n) == IF n = 0 THEN 1 ELSE b * Pow(b, n - 1)

Min(a, b) == IF a <= b THEN a ELSE b

\* should_retry with the client-error test widened to every status >= 400
should_retry_no_upper(this, attempt, status_code) ==
    IF attempt >= this.max_retries THEN FALSE
    ELSE IF Truthy(status_code) /\ status_code \in retryable_codes THEN TRUE
    ELSE IF Truthy(status_code) /\ 400 <= status_code /\ status_code # 429 THEN FALSE
    ELSE TRUE

\* should_retry with the attempt test off by one (attempt > max_retries)
should_retry_off_by_one(this, attempt, status_code) ==
    IF attempt > this.max_retries THEN FALSE
    ELSE IF Truthy(status_code) /\ status_code \in retryable_codes THEN TRUE
    ELSE IF Truthy(status_code) /\ 400 <= status_code /\ status_code < 500
            /\ status_code # 429 THEN FALSE
    ELSE TRUE

\* RetryHandler.should_retry(attempt, status_code)
should_retry(this, attempt, status_code) ==
    IF attempt >= this.max_retries THEN FALSE
    ELSE IF Truthy(status_code) /\ status_code \in retryable_codes THEN TRUE
    ELSE IF Truthy(status_code) /\ 400 <= status_code /\ status_code < 500
            /\ status_code # 429 THEN FALSE
    ELSE TRUE

\* delay * 0.25 * random.uniform(-1, 1), the draw being k / JitterSteps
Jitter(delay, k) == (delay * 25 * k) \div (100 * JitterSteps)

\* get_delay without the cap
get_delay_uncapped(this, attempt, k) ==
    LET delay == this.base_delay * Pow(this.exponential_base, attempt)
    IN  delay + Jitter(delay, k)

\* RetryHandler.get_delay(attempt), k the jitter draw
get_delay(this, attempt, k) ==
    LET delay == this.base_delay * Pow(this.exponential_base, attempt)
    IN  Min(delay + Jitter(delay, k), this.max_delay)

\* the cap of advanced_scraper.RetryHandler.get_delay: min(delay + jitter, 60.0)
AdvMaxDelay == 60000

\* advanced_scraper.RetryHandler.get_delay(attempt), k the jitter draw
adv_get_delay(this, attempt, k) ==
    LET delay == this.base_delay * Pow(2, attempt)
    IN  Min(delay + Jitter(delay, k), AdvMaxDelay)

\* RetryHandler(max_retries, base_delay, max_delay, exponential_base)
RetryHandlers ==
    [max_retries : 0..MaxRetriesBound,
     base_delay : {500, 1000},
     max_delay : {4000, 60000},
     exponential_base : {2}]

NoCall == [op |-> "none"]

\* nothing was written to the output files
NotSaved == [written |-> FALSE, data |-> <<>>]

\* no scraping session was started
NoSession == [status |-> "none", pages |-> 0, added |-> 0, skipped |-> 0]

\* the database after init_database() on a new file: every table is empty
EmptyDb == [quotes |-> <<>>, authors |-> <<>>, tags |-> <<>>, quote_tags |-> {}]

\* ProxyRotator(): no proxies
NoRotator == [proxies |-> <<>>, current_index |-> 0, failed_proxies |-> {},
              proxy_stats |-> <<>>]

\* stats = {'requests': 0, 'successful': 0, 'failed': 0, 'captchas': 0, 'blocks': 0}
NoStats == [requests |-> 0, successful |-> 0, failed |-> 0, captchas |-> 0, blocks |-> 0]

\* the two AntiBotScraper instances, or the two threads calling fetch_with_retry
Instances == {1, 2}

\* no AntiBotScraper was built
NoScrapers == [i \in Instances |-> [op |-> "none"]]

\* no instance has taken a step
NoActor == [last |-> 0, calls |-> 0]

\* no thread is calling fetch_with_retry
NoRuns == [j \in Instances |-> [pc |-> "none"]]

\* the processes that call insert_quote, each through a connection of its own
Conns == {1, 2}

\* a connection before insert_quote is called
NoConn == [pc |-> "idle", quote |-> [text |-> "", author |-> "", tags |-> <<>>],
           before |-> EmptyDb, work |-> EmptyDb, author_id |-> 0, quote_id |-> 0,
           outcome |-> "pending", error |-> "", result |-> [is_none |-> TRUE, id |-> 0],
           after |-> EmptyDb]

\* no insert_quote call is in progress
NoConns == [c \in Conns |-> NoConn]

\* a throttler built with no delay and one request per minute, never called
NoThrottler == [min_delay |-> 0, max_delay |-> 0, requests_per_minute |-> 1]

NotSlept == [limit |-> 0, delay |-> 0, errors |-> 0]

InitRetry ==
    /\ rh \in RetryHandlers
    /\ rh_call = NoCall
    /\ th = NoThrottler
    /\ now = 0
    /\ request_times = <<>>
    /\ consecutive_errors = 0
    /\ errors_since_success = 0
    /\ conns = NoConns
    /\ writer = 0
    /\ scrapers = NoScrapers
    /\ Stats = NoStats
    /\ runs = NoRuns
    /\ actor = NoActor
    /\ history = <<>>
    /\ slept = NotSlept
    /\ cd_call = NoCall
    /\ impl = "none"
    /\ max_retries = 0
    /\ pc = "done"
    /\ cur_attempt = 0
    /\ responses = <<>>
    /\ events = <<>>
    /\ backoff = 0
    /\ stats = NoStats
    /\ result = "pending"
    /\ driver = "none"
    /\ page_cap = 0
    /\ pg_pc = "done"
    /\ current_url = 1
    /\ page_number = 1
    /\ all_quotes = <<>>
    /\ fetched = <<>>
    /\ saved = NotSaved
    /\ session = NoSession
    /\ db = EmptyDb
    /\ db_log = <<>>
    /\ db_call = NoCall
    /\ pr = NoRotator
    /\ pr_call = NoCall
    /\ pr_marks = <<>>

\* a call handler.should_retry(attempt, status_code) on a fresh handler
CallShouldRetry ==
    /\ rh_call = NoCall
    /\ UNCHANGED <<txVars, instanceVars, pageVars, storeVars, proxyVars, rh, throttleVars, classifyVars, fetchVars>>
    /\ \E attempt \in 0..MaxAttempt, status_code \in StatusCodes :
        rh_call' = [op |-> "should_retry", attempt |-> attempt,
                    status_code |-> status_code,
                    result |-> should_retry(rh, attempt, status_code)]

\* a call handler.get_delay(attempt) on the antibot.py RetryHandler
CallGetDelay ==
    /\ rh_call = NoCall
    /\ UNCHANGED <<txVars, instanceVars, pageVars, storeVars, proxyVars, rh, throttleVars, classifyVars, fetchVars>>
    /\ \E attempt \in 0..MaxAttempt, k \in -JitterSteps..JitterSteps :
        rh_call' = [op |-> "get_delay", attempt |-> attempt, k |-> k,
                    cap |-> rh.max_delay,
                    result |-> get_delay(rh, attempt, k)]

\* a call handler.get_delay(attempt) on the advanced_scraper.py RetryHandler
CallAdvGetDelay ==
    /\ rh_call = NoCall
    /\ UNCHANGED <<txVars, instanceVars, pageVars, storeVars, proxyVars, rh, throttleVars, classifyVars, fetchVars>>
    /\ \E attempt \in 0..MaxAttempt, k \in -JitterSteps..JitterSteps :
        rh_call' = [op |-> "adv_get_delay", attempt |-> attempt, k |-> k,
                    cap |-> AdvMaxDelay,
                    result |-> adv_get_delay(rh, attempt, k)]

(***************************************************************************)
(* RequestThrottler (src/src/antibot.py; advanced_scraper.py inlines the   *)
(* same code)                                                              *)
(***************************************************************************)

\* timedelta(minutes=1) and the 60 of "60 - (now - request_times[0])"
Window == 60000

\* RequestThrottler(min_delay, max_delay, requests_per_minute)
Throttlers ==
    [min_delay : {1000}, max_delay : {3000}, requests_per_minute : 1..MaxRpm]
    \cup [min_delay : {0}, max_delay : {0}, requests_per_minute : 1..MaxRpm]

\* oversleep of time.sleep and time spent between statements
Lags == {0, 250}

\* what the caller lets pass between two throttler calls
IdleSteps == {20000}

\* [t for t in self.request_times if t > cutoff], cutoff = t - 1 minute
Cleaned(times, t) == SelectSeq(times, LAMBDA x : x > t - Window)

\* the rate-limit sleep taken only once the retained count exceeds the limit
wait_time_off_by_one(times, requests_per_minute, t) ==
    IF Len(times) > requests_per_minute
    THEN LET w == Window - (t - times[1])
         IN  IF w > 0 THEN w ELSE 0
    ELSE 0

\* the rate-limit sleep of wait(): 60 - age of request_times[0] when the
\* retained count has reached requests_per_minute and that is positive, else 0
wait_time(times, requests_per_minute, t) ==
    IF Len(times) >= requests_per_minute
    THEN LET w == Window - (t - times[1])
         IN  IF w > 0 THEN w ELSE 0
    ELSE 0

\* base_delay = random.uniform(min_delay, max_delay), the draw being u / DelaySteps
base_delay(this, u) ==
    this.min_delay + ((this.max_delay - this.min_delay) * u) \div DelaySteps

\* actual_delay without the error multiplier
actual_delay_no_multiplier(this, errors, u) == base_delay(this, u)

\* actual_delay = base_delay * (1 + consecutive_errors * 0.5)
actual_delay(this, errors, u) == (base_delay(this, u) * (2 + errors)) \div 2

\* RetryHandler(): max_retries=3, base_delay=1.0, max_delay=60.0, exponential_base=2.0
DefaultRetryHandler ==
    [max_retries |-> 3, base_delay |-> 1000, max_delay |-> 60000,
     exponential_base |-> 2]

InitThrottle ==
    /\ th \in Throttlers
    /\ now = 0
    /\ request_times = <<>>
    /\ consecutive_errors = 0
    /\ errors_since_success = 0
    /\ conns = NoConns
    /\ writer = 0
    /\ scrapers = NoScrapers
    /\ Stats = NoStats
    /\ runs = NoRuns
    /\ actor = NoActor
    /\ history = <<>>
    /\ slept = NotSlept
    /\ rh = DefaultRetryHandler
    /\ rh_call = NoCall
    /\ cd_call = NoCall
    /\ impl = "none"
    /\ max_retries = 0
    /\ pc = "done"
    /\ cur_attempt = 0
    /\ responses = <<>>
    /\ events = <<>>
    /\ backoff = 0
    /\ stats = NoStats
    /\ result = "pending"
    /\ driver = "none"
    /\ page_cap = 0
    /\ pg_pc = "done"
    /\ current_url = 1
    /\ page_number = 1
    /\ all_quotes = <<>>
    /\ fetched = <<>>
    /\ saved = NotSaved
    /\ session = NoSession
    /\ db = EmptyDb
    /\ db_log = <<>>
    /\ db_call = NoCall
    /\ pr = NoRotator
    /\ pr_call = NoCall
    /\ pr_marks = <<>>

\* the body of RequestThrottler.wait(): clean, sleep for the rate limit,
\* sleep the randomized delay, record the request time
WaitEffect(u, lag) ==
    LET kept == Cleaned(request_times, now)
        limit == wait_time(kept, th.requests_per_minute, now)
        delay == actual_delay(th, consecutive_errors, u)
        t == now + limit + delay + lag
    IN  /\ now' = t
        /\ request_times' = Append(kept, t)
        /\ history' = Append(history, t)
        /\ slept' = [limit |-> limit, delay |-> delay,
                     errors |-> errors_since_success]

\* a call RequestThrottler.wait()
Wait ==
    /\ Len(history) < MaxCalls
    /\ \E u \in 0..DelaySteps, lag \in Lags : WaitEffect(u, lag)
    /\ UNCHANGED <<txVars, instanceVars, pageVars, storeVars, proxyVars, th, consecutive_errors,
                   errors_since_success, retryVars, classifyVars, fetchVars>>

\* RequestThrottler.record_success()
RecordSuccess ==
    /\ consecutive_errors # 0
    /\ consecutive_errors' = 0
    /\ errors_since_success' = 0
    /\ UNCHANGED <<txVars, instanceVars, pageVars, storeVars, proxyVars, th, now, request_times, history, slept, retryVars, classifyVars, fetchVars>>

\* RequestThrottler.record_error()
RecordError ==
    /\ consecutive_errors < MaxErrors
    /\ consecutive_errors' = consecutive_errors + 1
    /\ errors_since_success' = errors_since_success + 1
    /\ UNCHANGED <<txVars, instanceVars, pageVars, storeVars, proxyVars, th, now, request_times, history, slept, retryVars, classifyVars, fetchVars>>

\* time passes in the caller between two calls
Idle ==
    /\ now < MaxIdle
    /\ \E d \in IdleSteps : now' = now + d
    /\ UNCHANGED <<txVars, instanceVars, pageVars, storeVars, proxyVars, th, request_times, consecutive_errors,
                   errors_since_success, history, slept, retryVars, classifyVars,
                   fetchVars>>

(***************************************************************************)
(* CaptchaDetector (src/src/antibot.py) and the is_blocked copies of       *)
(* advanced_scraper.py and final_antibot_scraper.py.  A string is the      *)
(* sequence of its characters.                                             *)
(***************************************************************************)

\* the letters str.lower() changes, and what it changes them to
UpperChars == <<"A", "B", "C", "D", "E", "F", "G", "H", "I", "J", "K", "L", "M", "N", "O", "P", "Q", "R", "S", "T", "U", "V", "W", "X", "Y", "Z">>

LowerChars == <<"a", "b", "c", "d", "e", "f", "g", "h", "i", "j", "k", "l", "m", "n", "o", "p", "q", "r", "s", "t", "u", "v", "w", "x", "y", "z">>

\* c.lower() of one character
LowerChar(c) ==
    IF \E i \in 1..Len(UpperChars) : UpperChars[i] = c
    THEN LowerChars[CHOOSE i \in 1..Len(UpperChars) : UpperChars[i] = c]
    ELSE c

\* str.lower()
Lower(s) == [i \in 1..Len(s) |-> LowerChar(s[i])]

\* "needle in haystack" of two strings
Contains(haystack, needle) ==
    \E i \in 0..(Len(haystack) - Len(needle)) :
        SubSeq(haystack, i + 1, i + Len(needle)) = needle

\* html = None / url = None
None == <<"None">>

\* the protocol names and the "://" of a proxy URL
HTTP == <<"h", "t", "t", "p">>

HTTPS == <<"h", "t", "t", "p", "s">>

SOCKS5 == <<"s", "o", "c", "k", "s", "5">>

COLON_SLASHES == <<":", "/", "/">>

\* Python truthiness of an optional string: None and "" are falsy
TruthyStr(s) == s # None /\ s # <<>>

\* CaptchaDetector.CAPTCHA_INDICATORS
CAPTCHA_INDICATORS == {
    <<"c", "a", "p", "t", "c", "h", "a">>,
    <<"r", "e", "c", "a", "p", "t", "c", "h", "a">>,
    <<"h", "c", "a", "p", "t", "c", "h", "a">>,
    <<"c", "h", "a", "l", "l", "e", "n", "g", "e">>,
    <<"v", "e", "r", "i", "f", "y", " ", "y", "o", "u", " ", "a", "r", "e", " ", "h", "u", "m", "a", "n">>,
    <<"v", "e", "r", "i", "f", "y", " ", "y", "o", "u", "'", "r", "e", " ", "h", "u", "m", "a", "n">>,
    <<"a", "r", "e", " ", "y", "o", "u", " ", "a", " ", "r", "o", "b", "o", "t">>,
    <<"b", "o", "t", " ", "d", "e", "t", "e", "c", "t", "i", "o", "n">>,
    <<"a", "c", "c", "e", "s", "s", " ", "d", "e", "n", "i", "e", "d">>,
    <<"b", "l", "o", "c", "k", "e", "d">>,
    <<"u", "n", "u", "s", "u", "a", "l", " ", "t", "r", "a", "f", "f", "i", "c">>,
    <<"a", "u", "t", "o", "m", "a", "t", "e", "d", " ", "a", "c", "c", "e", "s", "s">>,
    <<"p", "l", "e", "a", "s", "e", " ", "v", "e", "r", "i", "f", "y">>,
    <<"s", "e", "c", "u", "r", "i", "t", "y", " ", "c", "h", "e", "c", "k">>,
    <<"c", "l", "o", "u", "d", "f", "l", "a", "r", "e">>,
    <<"d", "d", "o", "s", " ", "p", "r", "o", "t", "e", "c", "t", "i", "o", "n">>,
    <<"i", "n", "c", "a", "p", "s", "u", "l", "a">>,
    <<"d", "i", "s", "t", "i", "l", " ", "n", "e", "t", "w", "o", "r", "k", "s">>,
    <<"i", "m", "p", "e", "r", "v", "a">>,
    <<"p", "e", "r", "i", "m", "e", "t", "e", "r", "x">>,
    <<"d", "a", "t", "a", "d", "o", "m", "e">>}

\* CaptchaDetector.CAPTCHA_URLS
CAPTCHA_URLS == {
    <<"g", "o", "o", "g", "l", "e", ".", "c", "o", "m", "/", "r", "e", "c", "a", "p", "t", "c", "h", "a">>,
    <<"h", "c", "a", "p", "t", "c", "h", "a", ".", "c", "o", "m">>,
    <<"c", "h", "a", "l", "l", "e", "n", "g", "e", "s", ".", "c", "l", "o", "u", "d", "f", "l", "a", "r", "e", ".", "c", "o", "m">>,
    <<"c", "a", "p", "t", "c", "h", "a">>,
    <<"c", "h", "a", "l", "l", "e", "n", "g", "e">>}

\* captcha_elements of is_captcha_page
captcha_elements == {
    <<"i", "d", "=", "\"", "c", "a", "p", "t", "c", "h", "a", "\"">>,
    <<"c", "l", "a", "s", "s", "=", "\"", "c", "a", "p", "t", "c", "h", "a", "\"">>,
    <<"i", "d", "=", "\"", "r", "e", "c", "a", "p", "t", "c", "h", "a", "\"">>,
    <<"c", "l", "a", "s", "s", "=", "\"", "g", "-", "r", "e", "c", "a", "p", "t", "c", "h", "a", "\"">>,
    <<"c", "l", "a", "s", "s", "=", "\"", "h", "-", "c", "a", "p", "t", "c", "h", "a", "\"">>,
    <<"d", "a", "t", "a", "-", "s", "i", "t", "e", "k", "e", "y", "=">>,
    <<"c", "f", "-", "t", "u", "r", "n", "s", "t", "i", "l", "e">>}

\* block_indicators of final_antibot_scraper.is_blocked
block_indicators == {
    <<"c", "a", "p", "t", "c", "h", "a">>,
    <<"b", "l", "o", "c", "k", "e", "d">>,
    <<"a", "c", "c", "e", "s", "s", " ", "d", "e", "n", "i", "e", "d">>,
    <<"u", "n", "u", "s", "u", "a", "l", " ", "t", "r", "a", "f", "f", "i", "c">>}

\* advanced_scraper.CaptchaDetector.INDICATORS
INDICATORS == {
    <<"c", "a", "p", "t", "c", "h", "a">>,
    <<"r", "e", "c", "a", "p", "t", "c", "h", "a">>,
    <<"h", "c", "a", "p", "t", "c", "h", "a">>,
    <<"v", "e", "r", "i", "f", "y", " ", "y", "o", "u", " ", "a", "r", "e", " ", "h", "u", "m", "a", "n">>,
    <<"a", "c", "c", "e", "s", "s", " ", "d", "e", "n", "i", "e", "d">>,
    <<"b", "l", "o", "c", "k", "e", "d">>,
    <<"u", "n", "u", "s", "u", "a", "l", " ", "t", "r", "a", "f", "f", "i", "c">>,
    <<"c", "l", "o", "u", "d", "f", "l", "a", "r", "e">>}

\* blocked_codes = {403, 429, 503}
blocked_codes == {403, 429, 503}

\* test_antibot.py: normal_html
normal_html ==
    <<"<", "h", "t", "m", "l", ">", "<", "b", "o", "d", "y", ">", "<", "h", "1", ">", "W", "e", "l", "c", "o", "m", "e", "<", "/", "h", "1", ">", "<", "p", ">", "C", "o", "n", "t", "e", "n", "t", " ", "h", "e", "r", "e", "<", "/", "p", ">", "<", "/", "b", "o", "d", "y", ">", "<", "/", "h", "t", "m", "l", ">">>

\* test_antibot.py: captcha_html
captcha_html ==
    <<"<", "h", "t", "m", "l", ">", "<", "b", "o", "d", "y", ">", "<", "d", "i", "v", " ", "c", "l", "a", "s", "s", "=", "'", "g", "-", "r", "e", "c", "a", "p", "t", "c", "h", "a", "'", " ", "d", "a", "t", "a", "-", "s", "i", "t", "e", "k", "e", "y", "=", "'", "x", "x", "x", "'", ">", "<", "/", "d", "i", "v", ">", "<", "/", "b", "o", "d", "y", ">", "<", "/", "h", "t", "m", "l", ">">>

\* test_antibot.py: blocked_html
blocked_html ==
    <<"<", "h", "t", "m", "l", ">", "<", "b", "o", "d", "y", ">", "<", "h", "1", ">", "A", "c", "c", "e", "s", "s", " ", "D", "e", "n", "i", "e", "d", "<", "/", "h", "1", ">", "<", "p", ">", "U", "n", "u", "s", "u", "a", "l", " ", "t", "r", "a", "f", "f", "i", "c", " ", "d", "e", "t", "e", "c", "t", "e", "d", "<", "/", "p", ">", "<", "/", "b", "o", "d", "y", ">", "<", "/", "h", "t", "m", "l", ">">>

\* a plain page
hello_html ==
    <<"<", "h", "t", "m", "l", ">", "h", "e", "l", "l", "o", "<", "/", "h", "t", "m", "l", ">">>

\* a page whose only marker is a data-sitekey attribute
sitekey_html ==
    <<"<", "d", "i", "v", " ", "d", "a", "t", "a", "-", "s", "i", "t", "e", "k", "e", "y", "=", "\"", "k", "\"", ">">>

\* a page whose only marker is a cf-turnstile widget, in upper case
turnstile_html ==
    <<"<", "d", "i", "v", " ", "c", "l", "a", "s", "s", "=", "\"", "C", "F", "-", "T", "u", "r", "n", "s", "t", "i", "l", "e", "\"", ">">>

\* a page with an indicator in upper case
shouting_html ==
    <<"<", "p", ">", "S", "o", "l", "v", "e", " ", "t", "h", "e", " ", "C", "A", "P", "T", "C", "H", "A", "<", "/", "p", ">">>

\* a reCAPTCHA widget written with single quotes
widget_html ==
    <<"<", "d", "i", "v", " ", "c", "l", "a", "s", "s", "=", "'", "g", "-", "r", "e", "c", "a", "p", "t", "c", "h", "a", "'", " ", "d", "a", "t", "a", "-", "s", "i", "t", "e", "k", "e", "y", "=", "'", "x", "'", ">", "<", "/", "d", "i", "v", ">">>

\* an empty body
empty_html ==
    <<>>

\* the response bodies the model draws from; None is the absent body
Bodies == {None, normal_html, captcha_html, blocked_html, hello_html, sitekey_html, turnstile_html, shouting_html, widget_html, empty_html}

\* the page URLs the model draws from; None is the absent URL
quotes_url ==
    <<"q", "u", "o", "t", "e", "s", ".", "t", "o", "s", "c", "r", "a", "p", "e", ".", "c", "o", "m", "/", "p", "a", "g", "e", "/", "2", "/">>

hcaptcha_url ==
    <<"h", "t", "t", "p", "s", ":", "/", "/", "H", "C", "a", "p", "t", "c", "h", "a", ".", "c", "o", "m", "/", "x">>

Urls == {None, quotes_url, hcaptcha_url}

\* is_captcha_page without its scan for CAPTCHA elements
is_captcha_page_no_elements(html, url) ==
    LET html_lower == Lower(html)
    IN  \/ \E indicator \in CAPTCHA_INDICATORS : Contains(html_lower, indicator)
        \/ /\ TruthyStr(url)
           /\ \E pattern \in CAPTCHA_URLS : Contains(Lower(url), pattern)

\* CaptchaDetector.is_captcha_page(html, url)
is_captcha_page(html, url) ==
    LET html_lower == Lower(html)
    IN  \/ \E indicator \in CAPTCHA_INDICATORS : Contains(html_lower, indicator)
        \/ /\ TruthyStr(url)
           /\ \E pattern \in CAPTCHA_URLS : Contains(Lower(url), pattern)
        \/ \E element \in captcha_elements : Contains(html_lower, element)

\* is_blocked looking at the body before the status code
is_blocked_body_first(status_code, html) ==
    IF TruthyStr(html) THEN is_captcha_page(html, None)
    ELSE status_code \in blocked_codes

\* CaptchaDetector.is_blocked(status_code, html)
is_blocked(status_code, html) ==
    \/ status_code \in blocked_codes
    \/ TruthyStr(html) /\ is_captcha_page(html, None)

\* CaptchaDetector.get_block_reason(status_code, html)
get_block_reason(status_code, html) ==
    IF status_code = 403 THEN "Access Forbidden - IP may be blocked"
    ELSE IF status_code = 429 THEN "Too Many Requests - Rate limited"
    ELSE IF status_code = 503
        THEN "Service Unavailable - May be under protection"
    ELSE IF TruthyStr(html) /\ is_captcha_page(html, None)
        THEN "CAPTCHA Challenge Detected"
    ELSE "Unknown block reason"

\* advanced_scraper.CaptchaDetector.is_blocked(status_code, html)
adv_is_blocked(status_code, html) ==
    \/ status_code \in blocked_codes
    \/ /\ TruthyStr(html)
       /\ \E indicator \in INDICATORS : Contains(Lower(html), indicator)

\* final_antibot_scraper.is_blocked(status_code, html), html a string
final_is_blocked(status_code, html) ==
    \/ status_code \in blocked_codes
    \/ \E indicator \in block_indicators : Contains(Lower(html), indicator)

\* final_antibot_scraper.is_blocked reaches html.lower() with html = None
final_is_blocked_raises(status_code, html) ==
    status_code \notin blocked_codes /\ html = None

\* how a call's boolean result is recorded
Py(b) == IF b THEN "True" ELSE "False"

InitClassify ==
    /\ cd_call = NoCall
    /\ rh = DefaultRetryHandler
    /\ rh_call = NoCall
    /\ th = NoThrottler
    /\ now = 0
    /\ request_times = <<>>
    /\ consecutive_errors = 0
    /\ errors_since_success = 0
    /\ conns = NoConns
    /\ writer = 0
    /\ scrapers = NoScrapers
    /\ Stats = NoStats
    /\ runs = NoRuns
    /\ actor = NoActor
    /\ history = <<>>
    /\ slept = NotSlept
    /\ impl = "none"
    /\ max_retries = 0
    /\ pc = "done"
    /\ cur_attempt = 0
    /\ responses = <<>>
    /\ events = <<>>
    /\ backoff = 0
    /\ stats = NoStats
    /\ result = "pending"
    /\ driver = "none"
    /\ page_cap = 0
    /\ pg_pc = "done"
    /\ current_url = 1
    /\ page_number = 1
    /\ all_quotes = <<>>
    /\ fetched = <<>>
    /\ saved = NotSaved
    /\ session = NoSession
    /\ db = EmptyDb
    /\ db_log = <<>>
    /\ db_call = NoCall
    /\ pr = NoRotator
    /\ pr_call = NoCall
    /\ pr_marks = <<>>

\* a call CaptchaDetector.is_captcha_page(html, url)
CallIsCaptchaPage ==
    /\ cd_call = NoCall
    /\ \E html \in Bodies \ {None}, url \in Urls :
        cd_call' = [op |-> "is_captcha_page", html |-> html, url |-> url,
                    result |-> Py(is_captcha_page(html, url))]
    /\ UNCHANGED <<txVars, instanceVars, pageVars, storeVars, proxyVars, retryVars, throttleVars, fetchVars>>

\* a call CaptchaDetector.is_blocked(status_code, html)
CallIsBlocked ==
    /\ cd_call = NoCall
    /\ \E status_code \in StatusCodes, html \in Bodies :
        cd_call' = [op |-> "is_blocked", status_code |-> status_code,
                    html |-> html,
                    result |-> Py(is_blocked(status_code, html))]
    /\ UNCHANGED <<txVars, instanceVars, pageVars, storeVars, proxyVars, retryVars, throttleVars, fetchVars>>

\* a call advanced_scraper.CaptchaDetector.is_blocked(status_code, html)
CallAdvIsBlocked ==
    /\ cd_call = NoCall
    /\ \E status_code \in StatusCodes, html \in Bodies :
        cd_call' = [op |-> "adv_is_blocked", status_code |-> status_code,
                    html |-> html,
                    result |-> Py(adv_is_blocked(status_code, html))]
    /\ UNCHANGED <<txVars, instanceVars, pageVars, storeVars, proxyVars, retryVars, throttleVars, fetchVars>>

\* a call final_antibot_scraper.is_blocked(status_code, html)
CallFinalIsBlocked ==
    /\ cd_call = NoCall
    /\ \E status_code \in StatusCodes, html \in Bodies :
        cd_call' = [op |-> "final_is_blocked", status_code |-> status_code,
                    html |-> html,
                    result |-> IF final_is_blocked_raises(status_code, html)
                               THEN "AttributeError"
                               ELSE Py(final_is_blocked(status_code, html))]
    /\ UNCHANGED <<txVars, instanceVars, pageVars, storeVars, proxyVars, retryVars, throttleVars, fetchVars>>

\* a call CaptchaDetector.get_block_reason(status_code, html)
CallGetBlockReason ==
    /\ cd_call = NoCall
    /\ \E status_code \in StatusCodes, html \in Bodies :
        cd_call' = [op |-> "get_block_reason", status_code |-> status_code,
                    html |-> html,
                    result |-> get_block_reason(status_code, html)]
    /\ UNCHANGED <<txVars, instanceVars, pageVars, storeVars, proxyVars, retryVars, throttleVars, fetchVars>>

\* the block checks applied to a response: "final" is is_blocked of
\* final_antibot_scraper, "advanced" and "antibot" are
\* CaptchaDetector.is_blocked of advanced_scraper and of antibot
BlockChecks == {"final", "advanced", "antibot"}

\* the block check of a response obtained for url, as the fetch functions
\* call it: is_blocked(response.status_code, response.text)
BlockCheck ==
    /\ cd_call = NoCall
    /\ \E check \in BlockChecks, status_code \in {200, 404, 429},
          html \in Bodies \ {None}, url \in Urls \ {None} :
        cd_call' = [op |-> "block_check", check |-> check, url |-> url,
                    status_code |-> status_code, html |-> html,
                    result |-> Py(CASE check = "final" ->
                                         final_is_blocked(status_code, html)
                                    [] check = "advanced" ->
                                         adv_is_blocked(status_code, html)
                                    [] check = "antibot" ->
                                         is_blocked(status_code, html))]
    /\ UNCHANGED <<txVars, instanceVars, pageVars, storeVars, proxyVars, retryVars, throttleVars, fetchVars>>

(***************************************************************************)
(* The fetch functions: one fetch of one URL.                              *)
(*   "final"     final_antibot_scraper.fetch_page / fetch_with_retry       *)
(*   "advanced"  advanced_scraper.fetch_page / RetryHandler.execute        *)
(*   "basic"     src/src/scraper.py WebScraper.fetch_page                  *)
(*   "execute_with_retry"  antibot.RetryHandler.execute_with_retry(func),  *)
(*               func being a GET followed by raise_for_status()           *)
(* The transport's answers are drawn one by one as the GETs are made.      *)
(***************************************************************************)

Impls == {"final", "advanced", "basic", "execute_with_retry"}

\* requests.get raised (connection error, timeout)
TransportError == [exc |-> TRUE, status |-> NoStatus, text |-> None]

\* what a GET can come back with: an exception or a response (status_code, text)
Responses ==
    {TransportError}
    \cup [exc : {FALSE}, status : {200, 404}, text : {hello_html, shouting_html}]
    \cup [exc : {FALSE}, status : {429, 503}, text : {hello_html}]

\* response.raise_for_status() raises HTTPError
RaisesForStatus(status_code) == 400 <= status_code /\ status_code < 600

\* one pass of the loop body of final_antibot_scraper.fetch_with_retry:
\* blocked (checked first), error (exception or HTTP error) or ok
final_outcome(r) ==
    IF r.exc THEN "error"
    ELSE IF final_is_blocked(r.status, r.text) THEN "blocked"
    ELSE IF RaisesForStatus(r.status) THEN "error"
    ELSE "ok"

\* advanced_scraper.fetch_page.do_request: raise_for_status first, then is_blocked
adv_outcome(r) ==
    IF r.exc \/ RaisesForStatus(r.status) THEN "error"
    ELSE IF adv_is_blocked(r.status, r.text) THEN "blocked"
    ELSE "ok"

\* WebScraper.fetch_page's try block, and func of execute_with_retry
basic_outcome(r) ==
    IF r.exc \/ RaisesForStatus(r.status) THEN "error" ELSE "ok"

\* the attempt after which a failure is final: range(max_retries) ends at
\* max_retries - 1 in fetch_with_retry; range(max_retries + 1) and
\* "retry_count < RETRY_ATTEMPTS" end at max_retries in the others
LastAttempt(i, m) == IF i = "final" THEN m - 1 ELSE m

\* the sleeps a failed attempt may be followed by:
\*   final: (2 ** attempt) + random.uniform(0, 1)
\*   advanced: RetryHandler(max_retries=3).get_delay(attempt)
\*   basic: random_delay(2, 4)
\*   execute_with_retry: self.get_delay(attempt)
BackoffDelays(i, a) ==
    CASE i = "final" ->
           {1000 * Pow(2, a) + (1000 * u) \div DelaySteps : u \in 0..DelaySteps}
      [] i = "advanced" ->
           {adv_get_delay(rh, a, k) : k \in -JitterSteps..JitterSteps}
      [] i = "basic" ->
           {2000 + (2000 * u) \div DelaySteps : u \in 0..DelaySteps}
      [] OTHER ->
           {get_delay(rh, a, k) : k \in -JitterSteps..JitterSteps}

\* RequestThrottler(min_delay=1.5, max_delay=3.0) of advanced_scraper.main
AdvThrottler == [min_delay |-> 1500, max_delay |-> 3000, requests_per_minute |-> 20]

InitFetch ==
    /\ impl \in Impls
    /\ max_retries \in 0..MaxRetriesBound
    /\ pc = IF impl \in {"final", "advanced"} THEN "start" ELSE "get"
    /\ cur_attempt = 0
    /\ responses = <<>>
    /\ events = <<>>
    /\ backoff = 0
    /\ stats = NoStats
    /\ result = "pending"
    /\ driver = "none"
    /\ page_cap = 0
    /\ pg_pc = "done"
    /\ current_url = 1
    /\ page_number = 1
    /\ all_quotes = <<>>
    /\ fetched = <<>>
    /\ saved = NotSaved
    /\ session = NoSession
    /\ db = EmptyDb
    /\ db_log = <<>>
    /\ db_call = NoCall
    /\ pr = NoRotator
    /\ pr_call = NoCall
    /\ pr_marks = <<>>
    /\ rh = [DefaultRetryHandler EXCEPT !.max_retries = max_retries]
    /\ rh_call = NoCall
    /\ th = IF impl = "advanced" THEN AdvThrottler ELSE NoThrottler
    /\ now = 0
    /\ request_times = <<>>
    /\ consecutive_errors = 0
    /\ errors_since_success = 0
    /\ conns = NoConns
    /\ writer = 0
    /\ scrapers = NoScrapers
    /\ Stats = NoStats
    /\ runs = NoRuns
    /\ actor = NoActor
    /\ history = <<>>
    /\ slept = NotSlept
    /\ cd_call = NoCall

\* final_antibot_scraper.fetch_page that skips smart_delay()
FinalFetchPageNoDelay ==
    /\ impl = "final"
    /\ pc = "start"
    /\ stats' = [stats EXCEPT !.requests = @ + 1]
    /\ IF max_retries > 0
       THEN pc' = "get" /\ result' = result
       ELSE pc' = "done" /\ result' = "None"
    /\ UNCHANGED <<txVars, instanceVars, pageVars, storeVars, proxyVars, impl, max_retries, cur_attempt, responses, events, backoff,
                   retryVars, throttleVars, classifyVars>>

\* final_antibot_scraper.fetch_page up to the loop of fetch_with_retry:
\* smart_delay(), Stats.requests += 1; an empty range returns None
FinalFetchPage ==
    /\ impl = "final"
    /\ pc = "start"
    /\ events' = Append(events, "wait")
    /\ stats' = [stats EXCEPT !.requests = @ + 1]
    /\ IF max_retries > 0
       THEN pc' = "get" /\ result' = result
       ELSE pc' = "done" /\ result' = "None"
    /\ UNCHANGED <<txVars, instanceVars, pageVars, storeVars, proxyVars, impl, max_retries, cur_attempt, responses, backoff,
                   retryVars, throttleVars, classifyVars>>

\* one pass of the loop of fetch_with_retry: the GET, is_blocked,
\* raise_for_status, the counters, and whether another attempt follows
FinalAttempt ==
    /\ impl = "final"
    /\ pc = "get"
    /\ \E r \in Responses :
        LET o == final_outcome(r)
            last == cur_attempt >= LastAttempt(impl, max_retries)
        IN  /\ responses' = Append(responses, r)
            /\ events' = Append(events, "get")
            /\ stats' = CASE o = "ok" -> [stats EXCEPT !.successful = @ + 1]
                          [] o = "blocked" -> [stats EXCEPT !.blocks = @ + 1]
                          [] OTHER -> [stats EXCEPT !.failed = @ + 1]
            /\ pc' = IF o = "ok" \/ last THEN "done" ELSE "sleep"
            /\ result' = IF o = "ok" THEN "html" ELSE IF last THEN "None" ELSE result
    /\ UNCHANGED <<txVars, instanceVars, pageVars, storeVars, proxyVars, impl, max_retries, cur_attempt, backoff,
                   retryVars, throttleVars, classifyVars>>

\* advanced_scraper.fetch_page up to retry_handler.execute:
\* throttler.wait(), stats['requests'] += 1
AdvFetchPage ==
    /\ impl = "advanced"
    /\ pc = "start"
    /\ \E u \in 0..DelaySteps, lag \in Lags : WaitEffect(u, lag)
    /\ events' = Append(events, "wait")
    /\ stats' = [stats EXCEPT !.requests = @ + 1]
    /\ pc' = "get"
    /\ UNCHANGED <<txVars, instanceVars, pageVars, storeVars, proxyVars, impl, max_retries, cur_attempt, responses, backoff, result,
                   th, consecutive_errors, errors_since_success, retryVars,
                   classifyVars>>

\* one pass of the loop of RetryHandler.execute around do_request, and, when
\* execute returns or raises, the rest of advanced_scraper.fetch_page
AdvAttempt ==
    /\ impl = "advanced"
    /\ pc = "get"
    /\ \E r \in Responses :
        LET o == adv_outcome(r)
            last == cur_attempt >= LastAttempt(impl, max_retries)
            blocked == IF o = "blocked" THEN 1 ELSE 0
        IN  /\ responses' = Append(responses, r)
            /\ events' = Append(events, "get")
            /\ IF o = "ok"
               THEN /\ stats' = [stats EXCEPT !.successful = @ + 1]
                    /\ consecutive_errors' = 0
                    /\ errors_since_success' = 0
                    /\ pc' = "done"
                    /\ result' = "html"
               ELSE IF last
               THEN /\ stats' = [stats EXCEPT !.blocks = @ + blocked,
                                              !.failed = @ + 1]
                    /\ consecutive_errors' = consecutive_errors + 1
                    /\ errors_since_success' = errors_since_success + 1
                    /\ pc' = "done"
                    /\ result' = "None"
               ELSE /\ stats' = [stats EXCEPT !.blocks = @ + blocked]
                    /\ pc' = "sleep"
                    /\ UNCHANGED <<consecutive_errors, errors_since_success, result>>
    /\ UNCHANGED <<txVars, instanceVars, pageVars, storeVars, proxyVars, impl, max_retries, cur_attempt, backoff, th, now,
                   request_times, history, slept, retryVars, classifyVars>>

\* one call of WebScraper.fetch_page(url, retry_count) up to its recursive call
BasicAttempt ==
    /\ impl = "basic"
    /\ pc = "get"
    /\ \E r \in Responses :
        LET o == basic_outcome(r)
            last == cur_attempt >= LastAttempt(impl, max_retries)
        IN  /\ responses' = Append(responses, r)
            /\ events' = Append(events, "get")
            /\ pc' = IF o = "ok" \/ last THEN "done" ELSE "sleep"
            /\ result' = IF o = "ok" THEN "html" ELSE IF last THEN "None" ELSE result
    /\ UNCHANGED <<txVars, instanceVars, pageVars, storeVars, proxyVars, impl, max_retries, cur_attempt, backoff, stats,
                   retryVars, throttleVars, classifyVars>>

\* one pass of the loop of RetryHandler.execute_with_retry(func); after the
\* last attempt it raises last_exception
ExecAttempt ==
    /\ impl = "execute_with_retry"
    /\ pc = "get"
    /\ \E r \in Responses :
        LET o == basic_outcome(r)
            last == cur_attempt >= LastAttempt(impl, max_retries)
        IN  /\ responses' = Append(responses, r)
            /\ events' = Append(events, "get")
            /\ pc' = IF o = "ok" \/ last THEN "done" ELSE "sleep"
            /\ result' = IF o = "ok" THEN "html" ELSE IF last THEN "raised" ELSE result
    /\ UNCHANGED <<txVars, instanceVars, pageVars, storeVars, proxyVars, impl, max_retries, cur_attempt, backoff, stats,
                   retryVars, throttleVars, classifyVars>>

\* the sleep after a failed attempt that leaves the attempt number alone
BackoffSleepSameAttempt ==
    /\ pc = "sleep"
    /\ \E d \in BackoffDelays(impl, cur_attempt) : backoff' = d
    /\ events' = Append(events, "sleep")
    /\ cur_attempt' = cur_attempt
    /\ pc' = "get"
    /\ UNCHANGED <<txVars, instanceVars, pageVars, storeVars, proxyVars, impl, max_retries, responses, stats, result,
                   retryVars, throttleVars, classifyVars>>

\* the step to the next attempt without the sleep
BackoffNoSleep ==
    /\ pc = "sleep"
    /\ cur_attempt' = cur_attempt + 1
    /\ pc' = "get"
    /\ UNCHANGED <<txVars, instanceVars, pageVars, storeVars, proxyVars, impl, max_retries, responses, events, backoff, stats, result,
                   retryVars, throttleVars, classifyVars>>

\* the sleep after a failed attempt that is not the last one, and the step
\* to the next attempt
BackoffSleep ==
    /\ pc = "sleep"
    /\ \E d \in BackoffDelays(impl, cur_attempt) : backoff' = d
    /\ events' = Append(events, "sleep")
    /\ cur_attempt' = cur_attempt + 1
    /\ pc' = "get"
    /\ UNCHANGED <<txVars, instanceVars, pageVars, storeVars, proxyVars, impl, max_retries, responses, stats, result,
                   retryVars, throttleVars, classifyVars>>

(***************************************************************************)
(* The statistics over the fetches of one run: fetch_with_retry            *)
(* (final_antibot_scraper.py) and fetch_page (advanced_scraper.py) as      *)
(* functions of the counters and of what each GET came to, in order.       *)
(***************************************************************************)

\* how fetch_with_retry can find the answer to one GET: "ok", "blocked", "error"
FinalOutcomes == {final_outcome(r) : r \in Responses}

\* how do_request of advanced_scraper.fetch_page can find it
AdvOutcomes == {adv_outcome(r) : r \in Responses}

\* the loop "for attempt in range(max_retries)" of fetch_with_retry from
\* pass `attempt` on: the counters afterwards and what is returned
RECURSIVE fetch_with_retry_loop(_, _, _, _)
fetch_with_retry_loop(s, os, attempt, m) ==
    IF attempt >= m THEN [stats |-> s, result |-> "None"]
    ELSE LET o == os[attempt + 1]
         IN  CASE o = "ok" ->
                    [stats |-> [s EXCEPT !.successful = @ + 1], result |-> "html"]
               [] o = "blocked" ->
                    IF attempt < m - 1
                    THEN fetch_with_retry_loop([s EXCEPT !.blocks = @ + 1], os,
                                               attempt + 1, m)
                    ELSE [stats |-> [s EXCEPT !.blocks = @ + 1], result |-> "None"]
               [] OTHER ->
                    fetch_with_retry_loop([s EXCEPT !.failed = @ + 1], os,
                                          attempt + 1, m)

\* fetch_with_retry without "Stats.requests += 1"
fetch_with_retry_uncounted(s, os, m) == fetch_with_retry_loop(s, os, 0, m)

\* fetch_with_retry(url, max_retries) met by the outcomes os
fetch_with_retry(s, os, m) ==
    fetch_with_retry_loop([s EXCEPT !.requests = @ + 1], os, 0, m)

\* retry_handler.execute(do_request) from pass `attempt` on: the counters
\* afterwards and whether execute raised
RECURSIVE execute(_, _, _, _)
execute(s, os, attempt, m) ==
    LET o == os[attempt + 1]
        s1 == IF o = "blocked" THEN [s EXCEPT !.blocks = @ + 1] ELSE s
    IN  IF o = "ok" THEN [stats |-> s1, raised |-> FALSE]
        ELSE IF attempt < m THEN execute(s1, os, attempt + 1, m)
        ELSE [stats |-> s1, raised |-> TRUE]

\* advanced_scraper.fetch_page after throttler.wait(), met by the outcomes os
adv_fetch_page(s, os, m) ==
    LET r == execute([s EXCEPT !.requests = @ + 1], os, 0, m)
    IN  IF r.raised
        THEN [stats |-> [r.stats EXCEPT !.failed = @ + 1], result |-> "None"]
        ELSE [stats |-> [r.stats EXCEPT !.successful = @ + 1], result |-> "html"]

\* a run of final_antibot_scraper or advanced_scraper before its first fetch
InitStats ==
    /\ impl \in {"final", "advanced"}
    /\ max_retries \in 0..MaxStatRetries
    /\ pc = "done"
    /\ cur_attempt = 0
    /\ responses = <<>>
    /\ events = <<>>
    /\ backoff = 0
    /\ stats = NoStats
    /\ result = "pending"
    /\ driver = "none"
    /\ page_cap = 0
    /\ pg_pc = "done"
    /\ current_url = 1
    /\ page_number = 1
    /\ all_quotes = <<>>
    /\ fetched = <<>>
    /\ saved = NotSaved
    /\ session = NoSession
    /\ db = EmptyDb
    /\ db_log = <<>>
    /\ db_call = NoCall
    /\ pr = NoRotator
    /\ pr_call = NoCall
    /\ pr_marks = <<>>
    /\ rh = [DefaultRetryHandler EXCEPT !.max_retries = max_retries]
    /\ rh_call = NoCall
    /\ th = IF impl = "advanced" THEN AdvThrottler ELSE NoThrottler
    /\ now = 0
    /\ request_times = <<>>
    /\ consecutive_errors = 0
    /\ errors_since_success = 0
    /\ scrapers = NoScrapers
    /\ Stats = NoStats
    /\ runs = NoRuns
    /\ actor = NoActor
    /\ conns = NoConns
    /\ writer = 0
    /\ history = <<>>
    /\ slept = NotSlept
    /\ cd_call = NoCall

\* a call fetch_page(url) of final_antibot_scraper: smart_delay(), then
\* fetch_with_retry(url)
StatsFinalFetch ==
    /\ impl = "final"
    /\ stats.requests < MaxFetches
    /\ \E os \in [1..max_retries -> FinalOutcomes] :
        LET r == fetch_with_retry(stats, os, max_retries)
        IN  /\ stats' = r.stats
            /\ result' = r.result
    /\ UNCHANGED <<txVars, instanceVars, pageVars, storeVars, proxyVars, impl, max_retries,
                   pc, cur_attempt, responses, events, backoff, retryVars, throttleVars,
                   classifyVars>>

\* a call fetch_page(url, ...) of advanced_scraper: throttler.wait(), the
\* requests under retry_handler.execute, record_success() / record_error()
StatsAdvFetch ==
    /\ impl = "advanced"
    /\ stats.requests < MaxFetches
    /\ \E u \in 0..DelaySteps, lag \in Lags : WaitEffect(u, lag)
    /\ \E os \in [1..(max_retries + 1) -> AdvOutcomes] :
        LET r == adv_fetch_page(stats, os, max_retries)
        IN  /\ stats' = r.stats
            /\ result' = r.result
            /\ consecutive_errors' = IF r.result = "html" THEN 0
                                     ELSE consecutive_errors + 1
            /\ errors_since_success' = IF r.result = "html" THEN 0
                                       ELSE errors_since_success + 1
    /\ UNCHANGED <<txVars, instanceVars, pageVars, storeVars, proxyVars, impl, max_retries,
                   pc, cur_attempt, responses, events, backoff, th, retryVars,
                   classifyVars>>

(***************************************************************************)
(* src/src/database.py: the quotes store.  A table is the sequence of its  *)
(* rows in insertion order; with AUTOINCREMENT and no deletes the id of a  *)
(* new row (cursor.lastrowid) is the number of rows after the insert.      *)
(***************************************************************************)

\* the quotes the callers insert: q1 comes from two authors, tags repeat
Quotes == {
    [text |-> "q1", author |-> "a1", tags |-> <<"life">>],
    [text |-> "q1", author |-> "a2", tags |-> <<>>],
    [text |-> "q2", author |-> "a1", tags |-> <<"life", "work">>],
    [text |-> "q3", author |-> "a2", tags |-> <<"life", "life">>]}

\* the lists of quotes insert_quotes_batch is called with
Batches == UNION {[1..n -> Quotes] : n \in 0..MaxBatch}

\* insert_quote returning None / returning the id of the new row
NoneId == [is_none |-> TRUE, id |-> 0]

RowId(n) == [is_none |-> FALSE, id |-> n]

\* cursor.fetchone() after SELECT id FROM table WHERE key = value:
\* the ids of the matching rows
SelectIds(table, key, value) ==
    {table[i].id : i \in {j \in 1..Len(table) : table[j][key] = value}}

\* the id SELECT found (the key columns are UNIQUE: at most one row matches)
FetchoneId(table, key, value) ==
    CHOOSE n \in SelectIds(table, key, value) : TRUE

\* the loop "for tag_name in tags" of insert_quote: get or create the tag,
\* then INSERT OR IGNORE INTO quote_tags
RECURSIVE AddTags(_, _, _)
AddTags(d, quote_id, tags) ==
    IF tags = <<>> THEN d
    ELSE LET tag_name == Head(tags)
             found == SelectIds(d.tags, "name", tag_name) # {}
             tag_id == IF found THEN FetchoneId(d.tags, "name", tag_name)
                       ELSE Len(d.tags) + 1
             d1 == IF found THEN d
                   ELSE [d EXCEPT !.tags =
                            Append(@, [id |-> tag_id, name |-> tag_name])]
             d2 == [d1 EXCEPT !.quote_tags =
                       @ \cup {[quote_id |-> quote_id, tag_id |-> tag_id]}]
         IN  AddTags(d2, quote_id, Tail(tags))

\* the source_url insert_quote is called with: None (the default) or the
\* URL of the page
SourceUrls == {"None", "1"}

\* insert_quote that gets or creates the author before it looks for the text
insert_quote_author_first(d, text, author, tags, source_url) ==
    LET known == SelectIds(d.authors, "name", author) # {}
        d1 == IF known THEN d
              ELSE [d EXCEPT !.authors =
                       Append(@, [id |-> Len(d.authors) + 1, name |-> author])]
    IN  IF SelectIds(d.quotes, "text", text) # {}
        THEN [db |-> d1, result |-> NoneId]
        ELSE LET author_id == IF known THEN FetchoneId(d.authors, "name", author)
                              ELSE Len(d.authors) + 1
                 quote_id == Len(d1.quotes) + 1
                 d2 == [d1 EXCEPT !.quotes =
                           Append(@, [id |-> quote_id, text |-> text,
                                      author_id |-> author_id,
                                      source_url |-> source_url])]
             IN  [db |-> AddTags(d2, quote_id, tags), result |-> RowId(quote_id)]

\* insert_quote without the check "SELECT id FROM quotes WHERE text = ?"
\* and without the UNIQUE constraint on quotes.text
insert_quote_unchecked(d, text, author, tags, source_url) ==
    LET d1 == [d EXCEPT !.quotes =
                  Append(@, [id |-> Len(d.quotes) + 1, text |-> text,
                             author_id |-> 1, source_url |-> source_url])]
    IN  [db |-> d1, result |-> RowId(Len(d.quotes) + 1)]

\* insert_quote(text, author, tags, source_url): the database after the
\* call and what the call returned
insert_quote(d, text, author, tags, source_url) ==
    IF SelectIds(d.quotes, "text", text) # {}
    THEN [db |-> d, result |-> NoneId]
    ELSE LET known == SelectIds(d.authors, "name", author) # {}
             author_id == IF known THEN FetchoneId(d.authors, "name", author)
                          ELSE Len(d.authors) + 1
             d1 == IF known THEN d
                   ELSE [d EXCEPT !.authors =
                            Append(@, [id |-> author_id, name |-> author])]
             quote_id == Len(d1.quotes) + 1
             d2 == [d1 EXCEPT !.quotes =
                       Append(@, [id |-> quote_id, text |-> text,
                                  author_id |-> author_id,
                                  source_url |-> source_url])]
         IN  [db |-> AddTags(d2, quote_id, tags), result |-> RowId(quote_id)]

\* "if result:" of insert_quotes_batch: None and 0 are false
TruthyId(r) == ~r.is_none /\ r.id # 0

\* insert_quotes_batch(quotes, source_url), run on database d with the log
\* of insert_quote calls: the database, the log and the counts afterwards
RECURSIVE insert_quotes_batch(_, _, _, _, _, _)
insert_quotes_batch(d, log, quotes, source_url, added, skipped) ==
    IF quotes = <<>>
    THEN [db |-> d, log |-> log, added |-> added, skipped |-> skipped]
    ELSE LET quote == Head(quotes)
             r == insert_quote(d, quote.text, quote.author, quote.tags,
                               source_url)
             log1 == Append(log, [text |-> quote.text, result |-> r.result])
         IN  IF TruthyId(r.result)
             THEN insert_quotes_batch(r.db, log1, Tail(quotes), source_url,
                                      added + 1, skipped)
             ELSE insert_quotes_batch(r.db, log1, Tail(quotes), source_url,
                                      added, skipped + 1)

InitStore ==
    /\ db = EmptyDb
    /\ db_log = <<>>
    /\ db_call = NoCall
    /\ rh = DefaultRetryHandler
    /\ rh_call = NoCall
    /\ th = NoThrottler
    /\ now = 0
    /\ request_times = <<>>
    /\ consecutive_errors = 0
    /\ errors_since_success = 0
    /\ conns = NoConns
    /\ writer = 0
    /\ scrapers = NoScrapers
    /\ Stats = NoStats
    /\ runs = NoRuns
    /\ actor = NoActor
    /\ history = <<>>
    /\ slept = NotSlept
    /\ cd_call = NoCall
    /\ impl = "none"
    /\ max_retries = 0
    /\ pc = "done"
    /\ cur_attempt = 0
    /\ responses = <<>>
    /\ events = <<>>
    /\ backoff = 0
    /\ stats = NoStats
    /\ result = "pending"
    /\ driver = "none"
    /\ page_cap = 0
    /\ pg_pc = "done"
    /\ current_url = 1
    /\ page_number = 1
    /\ all_quotes = <<>>
    /\ fetched = <<>>
    /\ saved = NotSaved
    /\ session = NoSession
    /\ pr = NoRotator
    /\ pr_call = NoCall
    /\ pr_marks = <<>>

\* a call insert_quote(text, author, tags), as test_database makes it
InsertQuote ==
    /\ Len(db_log) < MaxInserts
    /\ \E quote \in Quotes, source_url \in SourceUrls :
        LET r == insert_quote(db, quote.text, quote.author, quote.tags, source_url)
        IN  /\ db' = r.db
            /\ db_log' = Append(db_log, [text |-> quote.text,
                                         result |-> r.result])
            /\ db_call' = [op |-> "insert_quote", text |-> quote.text,
                           author |-> quote.author, tags |-> quote.tags,
                           source_url |-> source_url, result |-> r.result]
    /\ UNCHANGED <<txVars, instanceVars, retryVars, throttleVars, classifyVars, fetchVars, pageVars,
                   proxyVars>>

\* a call insert_quotes_batch(quotes)
InsertQuotesBatch ==
    /\ \E quotes \in Batches :
        /\ Len(db_log) + Len(quotes) <= MaxInserts
        /\ LET r == insert_quotes_batch(db, db_log, quotes, "None", 0, 0)
           IN  /\ db' = r.db
               /\ db_log' = r.log
               /\ db_call' = [op |-> "insert_quotes_batch", quotes |-> quotes,
                              added |-> r.added, skipped |-> r.skipped]
    /\ UNCHANGED <<txVars, instanceVars, retryVars, throttleVars, classifyVars, fetchVars, pageVars,
                   proxyVars>>

(***************************************************************************)
(* The pagination loops: main() of final_antibot_scraper ("final"),        *)
(* advanced_scraper ("advanced"), main.py ("main"), run_scraper            *)
(* ("run_scraper") and db_scraper ("db_scraper").  One step is one pass of *)
(* the while loop; what fetch_page does in that pass is drawn as the pass  *)
(* is made.  A page that fetch_page of advanced_scraper returns has passed *)
(* is_blocked, so the second is_blocked(200, html) of its main() is false. *)
(***************************************************************************)

Drivers == {"final", "advanced", "main", "run_scraper", "db_scraper"}

\* what parse_quotes can extract from a page: nothing, one quote, three quotes
PageItems == {
    <<>>,
    <<[text |-> "q1", author |-> "a2", tags |-> <<>>]>>,
    <<[text |-> "q1", author |-> "a1", tags |-> <<"life">>],
      [text |-> "q2", author |-> "a1", tags |-> <<"life", "work">>],
      [text |-> "q3", author |-> "a2", tags |-> <<"life", "life">>]>>}

\* the calls of one pass that block and can be interrupted (Ctrl-C): the
\* delay before the request, the request, a backoff sleep of the retry
\* loop, the sleep after a page that has a next link
InterruptPoints(d) ==
    CASE d = "final" -> {"delay", "request", "backoff"}
      [] d = "advanced" -> {"delay", "request", "backoff"}
      [] d = "main" -> {"request", "backoff", "page_delay"}
      [] d = "run_scraper" -> {"request", "page_delay"}
      [] d = "db_scraper" -> {"delay", "request"}

\* what one pass of the loop of driver d can meet:
\*   "html"       fetch_page returned a page with these items and next link
\*   "None"       fetch_page returned None
\*   "raise"      fetch_page raised (run_scraper.fetch_page catches nothing)
\*   "interrupt"  KeyboardInterrupt was raised at the blocking call `at`
\*                ("page_delay": after the items of the page were collected;
\*                "insert": inside insert_quotes_batch)
\*   "error"      the page was fetched and an insert_quote call of
\*                insert_quotes_batch raised an Exception
FetchOutcomes(d) ==
    [kind : {"html"}, items : PageItems, next : BOOLEAN, at : {"none"}]
    \cup (IF d = "run_scraper"
          THEN {[kind |-> "raise", items |-> <<>>, next |-> FALSE, at |-> "none"]}
          ELSE {[kind |-> "None", items |-> <<>>, next |-> FALSE, at |-> "none"]})
    \cup [kind : {"interrupt"}, items : {<<>>}, next : {FALSE},
          at : InterruptPoints(d) \ {"page_delay"}]
    \cup [kind : {"interrupt"}, items : PageItems, next : {TRUE},
          at : InterruptPoints(d) \cap {"page_delay"}]
    \cup (IF d = "db_scraper"
          THEN [kind : {"error", "interrupt"}, items : PageItems \ {<<>>},
                next : {FALSE}, at : {"insert"}]
          ELSE {})

\* where the next link of a page can point: at the following page, at the
\* page itself, or back at the first page (get_next_page returns whatever
\* href the page carries)
NextTargets(url) == {url + 1, url, 1}

\* the loop condition with the page cap off by one
LoopConditionOffByOne(d, n, cap) == n <= cap + 1

\* the loop condition: "current_url and page_number <= MAX_PAGES", in
\* db_scraper "current_url and pages_scraped < MAX_PAGES"; current_url is
\* never None
LoopCondition(d, n, cap) ==
    IF d = "db_scraper" THEN n < cap ELSE n <= cap

\* all_quotes.extend(quotes) keeping only the new page
ExtendReplacing(all, quotes) == quotes

\* all_quotes.extend(quotes)
Extend(all, quotes) == all \o quotes

\* update_session(session_id, pages_scraped, total_added, total_skipped, status)
update_session(s, pages, status) ==
    [s EXCEPT !.status = status, !.pages = pages]

InitPage ==
    /\ driver \in Drivers
    /\ page_cap \in 0..MaxPageCap
    /\ pg_pc = "loop"
    /\ current_url = 1
    /\ page_number = IF driver = "db_scraper" THEN 0 ELSE 1
    /\ all_quotes = <<>>
    /\ fetched = <<>>
    /\ saved = NotSaved
    /\ session = IF driver = "db_scraper"
                 THEN [NoSession EXCEPT !.status = "running"]
                 ELSE NoSession
    /\ db = EmptyDb
    /\ db_log = <<>>
    /\ db_call = NoCall
    /\ rh = DefaultRetryHandler
    /\ rh_call = NoCall
    /\ th = NoThrottler
    /\ now = 0
    /\ request_times = <<>>
    /\ consecutive_errors = 0
    /\ errors_since_success = 0
    /\ conns = NoConns
    /\ writer = 0
    /\ scrapers = NoScrapers
    /\ Stats = NoStats
    /\ runs = NoRuns
    /\ actor = NoActor
    /\ history = <<>>
    /\ slept = NotSlept
    /\ cd_call = NoCall
    /\ impl = "none"
    /\ max_retries = 0
    /\ pc = "done"
    /\ cur_attempt = 0
    /\ responses = <<>>
    /\ events = <<>>
    /\ backoff = 0
    /\ stats = NoStats
    /\ result = "pending"
    /\ pr = NoRotator
    /\ pr_call = NoCall
    /\ pr_marks = <<>>

\* one pass of the while loop of the file-writing drivers: fetch, extract,
\* collect, advance
LoopPass ==
    /\ driver \in Drivers \ {"db_scraper"}
    /\ pg_pc = "loop"
    /\ LoopCondition(driver, page_number, page_cap)
    /\ \E o \in FetchOutcomes(driver) :
        /\ fetched' = Append(fetched, o)
        /\ all_quotes' = IF o.kind = "html" \/ o.at = "page_delay"
                         THEN Extend(all_quotes, o.items)
                         ELSE all_quotes
        /\ IF o.next
           THEN /\ \E t \in NextTargets(current_url) : current_url' = t
                /\ page_number' = page_number + 1
           ELSE UNCHANGED <<current_url, page_number>>
        /\ pg_pc' = CASE o.kind = "html" -> IF o.next THEN "loop" ELSE "break"
                      [] o.kind = "None" -> "break"
                      [] o.kind \in {"raise", "interrupt"} -> "raised"
    /\ UNCHANGED <<txVars, instanceVars, driver, page_cap, saved, session, storeVars, retryVars,
                   throttleVars, classifyVars, fetchVars, proxyVars>>

\* main() after its loop of the file-writing drivers: save what was collected
SaveAll ==
    /\ driver \in Drivers \ {"db_scraper"}
    /\ \/ pg_pc = "break"
       \/ pg_pc = "loop" /\ ~LoopCondition(driver, page_number, page_cap)
    /\ saved' = IF all_quotes # <<>>
                THEN [written |-> TRUE, data |-> all_quotes]
                ELSE saved
    /\ pg_pc' = "done"
    /\ UNCHANGED <<txVars, instanceVars, driver, page_cap, current_url, page_number, all_quotes,
                   fetched, session, storeVars, retryVars, throttleVars,
                   classifyVars, fetchVars, proxyVars>>

\* one pass of the while loop of db_scraper.main: count the page, fetch,
\* extract, insert_quotes_batch, advance; KeyboardInterrupt is caught and
\* the session is closed as 'interrupted', another exception is caught and
\* the session is closed as 'failed'
DbLoopPass ==
    /\ driver = "db_scraper"
    /\ pg_pc = "loop"
    /\ LoopCondition(driver, page_number, page_cap)
    /\ page_number' = page_number + 1
    /\ \E o \in FetchOutcomes(driver) :
        /\ fetched' = Append(fetched, o)
        /\ CASE o.kind = "html" ->
                LET r == insert_quotes_batch(db, db_log, o.items,
                                             ToString(current_url), 0, 0)
                IN  /\ db' = r.db
                    /\ db_log' = r.log
                    /\ db_call' = [op |-> "insert_quotes_batch",
                                   quotes |-> o.items,
                                   added |-> r.added, skipped |-> r.skipped]
                    /\ session' = [session EXCEPT !.added = @ + r.added,
                                                  !.skipped = @ + r.skipped]
             [] o.at = "insert" ->
                \* the insert_quote call for quote done + 1 raised and was
                \* rolled back; the calls before it are committed and
                \* insert_quotes_batch returns no counts
                \E done \in 0..(Len(o.items) - 1) :
                    LET r == insert_quotes_batch(db, db_log,
                                                 SubSeq(o.items, 1, done),
                                                 ToString(current_url), 0, 0)
                    IN  /\ db' = r.db
                        /\ db_log' = r.log
                        /\ db_call' = [op |-> "insert_quotes_batch raised",
                                       quotes |-> o.items,
                                       added |-> r.added, skipped |-> r.skipped]
                        /\ session' = update_session(session, page_number',
                                         IF o.kind = "interrupt"
                                         THEN "interrupted" ELSE "failed")
             [] OTHER ->
                /\ UNCHANGED storeVars
                /\ session' = IF o.kind = "interrupt"
                              THEN update_session(session, page_number',
                                                  "interrupted")
                              ELSE session
        /\ IF o.next
           THEN \E t \in NextTargets(current_url) : current_url' = t
           ELSE current_url' = current_url
        /\ pg_pc' = CASE o.kind = "html" -> IF o.next THEN "loop" ELSE "break"
                      [] o.kind = "None" -> "break"
                      [] o.kind \in {"interrupt", "error"} -> "done"
    /\ UNCHANGED <<txVars, instanceVars, driver, page_cap, all_quotes, saved, retryVars,
                   throttleVars, classifyVars, fetchVars, proxyVars>>

\* db_scraper.main after its loop: update_session(..., 'completed')
DbCloseSession ==
    /\ driver = "db_scraper"
    /\ \/ pg_pc = "break"
       \/ pg_pc = "loop" /\ ~LoopCondition(driver, page_number, page_cap)
    /\ session' = update_session(session, page_number, "completed")
    /\ pg_pc' = "done"
    /\ UNCHANGED <<txVars, instanceVars, driver, page_cap, current_url, page_number, all_quotes,
                   fetched, saved, storeVars, retryVars, throttleVars,
                   classifyVars, fetchVars, proxyVars>>

(***************************************************************************)
(* src/src/antibot.py: ProxyConfig and ProxyRotator.  Strings are          *)
(* sequences of characters, so that to_dict builds the proxy URL and       *)
(* mark_failed / mark_success take it apart as the code does.              *)
(***************************************************************************)

\* the ProxyConfig values the model draws from: without credentials, with
\* credentials, with another protocol
ProxyConfigs == {
    [host |-> <<"a">>, port |-> 80, username |-> None, password |-> None,
     protocol |-> HTTP],
    [host |-> <<"b">>, port |-> 81, username |-> <<"u">>, password |-> <<"p">>,
     protocol |-> HTTP],
    [host |-> <<"c">>, port |-> 82, username |-> None, password |-> None,
     protocol |-> SOCKS5],
    [host |-> <<"d">>, port |-> 83, username |-> None, password |-> None,
     protocol |-> HTTPS]}

\* the pools a ProxyRotator is built with: lists of different proxies
Pools ==
    {pool \in UNION {[1..n -> ProxyConfigs] : n \in 0..MaxProxies} :
        \A i, j \in 1..Len(pool) : pool[i] = pool[j] => i = j}

\* str(n) for a non-negative integer
RECURSIVE Str(_)
Str(n) ==
    LET digits == <<"0", "1", "2", "3", "4", "5", "6", "7", "8", "9">>
    IN  IF n < 10 THEN <<digits[n + 1]>>
        ELSE Str(n \div 10) \o <<digits[(n % 10) + 1]>>

\* f"{proxy.host}:{proxy.port}"
HostPort(proxy) == proxy.host \o <<":">> \o Str(proxy.port)

\* ProxyConfig.to_dict()
to_dict(proxy) ==
    LET proxy_url ==
            IF TruthyStr(proxy.username) /\ TruthyStr(proxy.password)
            THEN proxy.protocol \o COLON_SLASHES \o proxy.username \o <<":">>
                     \o proxy.password \o <<"@">> \o HostPort(proxy)
            ELSE proxy.protocol \o COLON_SLASHES \o HostPort(proxy)
    IN  [http |-> proxy_url, https |-> proxy_url]

\* s starts with prefix
StartsWith(s, prefix) ==
    Len(s) >= Len(prefix) /\ SubSeq(s, 1, Len(prefix)) = prefix

\* s.replace(old, ""), old not empty
RECURSIVE Remove(_, _)
Remove(s, old) ==
    IF s = <<>> THEN <<>>
    ELSE IF StartsWith(s, old)
        THEN Remove(SubSeq(s, Len(old) + 1, Len(s)), old)
    ELSE <<Head(s)>> \o Remove(Tail(s), old)

\* the text of s before its first "@" (all of s when it has none)
RECURSIVE UpToAt(_)
UpToAt(s) ==
    IF s = <<>> \/ Head(s) = "@" THEN <<>>
    ELSE <<Head(s)>> \o UpToAt(Tail(s))

\* s.split("@")[1], s holding an "@"
SplitAt1(s) ==
    UpToAt(SubSeq(s, Len(UpToAt(s)) + 2, Len(s)))

\* host_port as mark_failed and mark_success extract it from
\* proxy_dict.get("http", "")
host_port_of(proxy_dict) ==
    LET proxy_url == proxy_dict.http
    IN  IF \E i \in 1..Len(proxy_url) : proxy_url[i] = "@"
        THEN SplitAt1(proxy_url)
        ELSE Remove(Remove(proxy_url, HTTP \o COLON_SLASHES),
                    HTTPS \o COLON_SLASHES)

\* a method returning None / returning proxy.to_dict()
NoProxy == [is_none |-> TRUE]

SomeProxy(proxy) == [is_none |-> FALSE, dict |-> to_dict(proxy)]

\* ProxyRotator(proxies)
ProxyRotator(proxies) ==
    [proxies |-> proxies, current_index |-> 0, failed_proxies |-> {},
     proxy_stats |-> <<>>]

\* add_proxy(proxy)
add_proxy(this, proxy) ==
    [this EXCEPT
        !.proxies = Append(@, proxy),
        !.proxy_stats =
            [k \in DOMAIN this.proxy_stats \cup {HostPort(proxy)} |->
                IF k = HostPort(proxy) THEN [success |-> 0, failure |-> 0]
                ELSE this.proxy_stats[k]]]

\* the proxies get_random chooses from
available(this) ==
    SelectSeq(this.proxies,
              LAMBDA p : HostPort(p) \notin this.failed_proxies)

\* get_next() returning whatever proxy is next, failed or not
get_next_unskipped(this) ==
    IF this.proxies = <<>> THEN [pr |-> this, result |-> NoProxy]
    ELSE [pr |-> [this EXCEPT !.current_index =
                     (this.current_index + 1) % Len(this.proxies)],
          result |-> SomeProxy(this.proxies[this.current_index + 1])]

\* the while loop of get_next, entered with `attempts` proxies skipped
RECURSIVE get_next_loop(_, _)
get_next_loop(this, attempts) ==
    IF attempts < Len(this.proxies)
    THEN LET proxy == this.proxies[this.current_index + 1]
             next == [this EXCEPT !.current_index =
                         (this.current_index + 1) % Len(this.proxies)]
         IN  IF HostPort(proxy) \notin this.failed_proxies
             THEN [pr |-> next, result |-> SomeProxy(proxy)]
             ELSE get_next_loop(next, attempts + 1)
    ELSE [pr |-> this, result |-> NoProxy]

\* get_next(): the rotator after the call and what the call returned
get_next(this) ==
    IF this.proxies = <<>> THEN [pr |-> this, result |-> NoProxy]
    ELSE get_next_loop(this, 0)

\* mark_failed that leaves failed_proxies alone
mark_failed_forgetting(this, proxy_dict) ==
    LET host_port == host_port_of(proxy_dict)
    IN  IF host_port \in DOMAIN this.proxy_stats
        THEN [this EXCEPT !.proxy_stats[host_port].failure = @ + 1]
        ELSE this

\* mark_failed(proxy_dict)
mark_failed(this, proxy_dict) ==
    LET host_port == host_port_of(proxy_dict)
        failed == [this EXCEPT !.failed_proxies = @ \cup {host_port}]
    IN  IF host_port \in DOMAIN this.proxy_stats
        THEN [failed EXCEPT !.proxy_stats[host_port].failure = @ + 1]
        ELSE failed

\* mark_success(proxy_dict)
mark_success(this, proxy_dict) ==
    LET host_port == host_port_of(proxy_dict)
    IN  IF host_port \in DOMAIN this.proxy_stats
        THEN [this EXCEPT !.proxy_stats[host_port].success = @ + 1]
        ELSE this

\* reset_failed()
reset_failed(this) == [this EXCEPT !.failed_proxies = {}]

\* no mark_failed / mark_success call was made yet
NoMarks == [failure |-> [c \in ProxyConfigs |-> 0],
            success |-> [c \in ProxyConfigs |-> 0],
            failed |-> {}]

\* the number of mark_failed and mark_success calls so far
RECURSIVE Sum(_, _)
Sum(f, S) ==
    IF S = {} THEN 0
    ELSE LET c == CHOOSE x \in S : TRUE IN f[c] + Sum(f, S \ {c})

Marks == Sum(pr_marks.failure, ProxyConfigs) + Sum(pr_marks.success, ProxyConfigs)

\* the proxies of the pool
InPool == {pr.proxies[i] : i \in 1..Len(pr.proxies)}

InitProxy ==
    /\ \E proxies \in Pools : pr = ProxyRotator(proxies)
    /\ pr_call = NoCall
    /\ pr_marks = NoMarks
    /\ rh = DefaultRetryHandler
    /\ rh_call = NoCall
    /\ th = NoThrottler
    /\ now = 0
    /\ request_times = <<>>
    /\ consecutive_errors = 0
    /\ errors_since_success = 0
    /\ conns = NoConns
    /\ writer = 0
    /\ scrapers = NoScrapers
    /\ Stats = NoStats
    /\ runs = NoRuns
    /\ actor = NoActor
    /\ history = <<>>
    /\ slept = NotSlept
    /\ cd_call = NoCall
    /\ impl = "none"
    /\ max_retries = 0
    /\ pc = "done"
    /\ cur_attempt = 0
    /\ responses = <<>>
    /\ events = <<>>
    /\ backoff = 0
    /\ stats = NoStats
    /\ result = "pending"
    /\ driver = "none"
    /\ page_cap = 0
    /\ pg_pc = "done"
    /\ current_url = 1
    /\ page_number = 1
    /\ all_quotes = <<>>
    /\ fetched = <<>>
    /\ saved = NotSaved
    /\ session = NoSession
    /\ db = EmptyDb
    /\ db_log = <<>>
    /\ db_call = NoCall

\* a call add_proxy(proxy) with a proxy that is not in the pool
AddProxy ==
    /\ Len(pr.proxies) < MaxProxies
    /\ \E proxy \in ProxyConfigs \ InPool :
        /\ pr' = add_proxy(pr, proxy)
        /\ pr_call' = [op |-> "add_proxy", proxy |-> proxy]
    /\ UNCHANGED <<txVars, instanceVars, pr_marks, retryVars, throttleVars, classifyVars, fetchVars,
                   pageVars, storeVars>>

\* a call get_next()
GetNext ==
    /\ LET r == get_next(pr)
       IN  /\ pr' = r.pr
           /\ pr_call' = [op |-> "get_next", result |-> r.result,
                          proxies |-> pr.proxies,
                          failed_proxies |-> pr.failed_proxies,
                          failed |-> pr_marks.failed]
    /\ UNCHANGED <<txVars, instanceVars, pr_marks, retryVars, throttleVars, classifyVars, fetchVars,
                   pageVars, storeVars>>

\* a call get_random(): random.choice(available)
GetRandom ==
    /\ \E r \in IF available(pr) = <<>> THEN {NoProxy}
                ELSE {SomeProxy(available(pr)[i]) :
                          i \in 1..Len(available(pr))} :
        pr_call' = [op |-> "get_random", result |-> r,
                    proxies |-> pr.proxies,
                    failed_proxies |-> pr.failed_proxies,
                    failed |-> pr_marks.failed]
    /\ UNCHANGED <<txVars, instanceVars, pr, pr_marks, retryVars, throttleVars, classifyVars,
                   fetchVars, pageVars, storeVars>>

\* a call mark_failed(proxy_dict) with the dict get_next / get_random
\* returns for a proxy of the pool
MarkFailed ==
    /\ Marks < MaxMarks
    /\ \E proxy \in InPool :
        /\ pr' = mark_failed(pr, to_dict(proxy))
        /\ pr_call' = [op |-> "mark_failed", proxy |-> proxy]
        /\ pr_marks' = [pr_marks EXCEPT !.failure[proxy] = @ + 1,
                                        !.failed = @ \cup {proxy}]
    /\ UNCHANGED <<txVars, instanceVars, retryVars, throttleVars, classifyVars, fetchVars, pageVars,
                   storeVars>>

\* a call mark_success(proxy_dict) with the dict get_next / get_random
\* returns for a proxy of the pool
MarkSuccess ==
    /\ Marks < MaxMarks
    /\ \E proxy \in InPool :
        /\ pr' = mark_success(pr, to_dict(proxy))
        /\ pr_call' = [op |-> "mark_success", proxy |-> proxy]
        /\ pr_marks' = [pr_marks EXCEPT !.success[proxy] = @ + 1]
    /\ UNCHANGED <<txVars, instanceVars, retryVars, throttleVars, classifyVars, fetchVars, pageVars,
                   storeVars>>

\* a call reset_failed()
ResetFailed ==
    /\ pr.failed_proxies # {}
    /\ pr' = reset_failed(pr)
    /\ pr_call' = [op |-> "reset_failed"]
    /\ pr_marks' = [pr_marks EXCEPT !.failed = {}]
    /\ UNCHANGED <<txVars, instanceVars, retryVars, throttleVars, classifyVars, fetchVars, pageVars,
                   storeVars>>

(***************************************************************************)
(* src/src/database.py: insert_quote statement by statement, called by two *)
(* processes through connections of their own (get_connection).  A SELECT  *)
(* outside a transaction reads the committed database.  The sqlite3 module *)
(* opens a transaction before the first INSERT of a connection; the INSERT *)
(* takes the write lock of the database file, which one connection holds   *)
(* at a time, until commit or rollback; the changes of a transaction reach *)
(* the database file at commit.                                            *)
(***************************************************************************)

\* the UNIQUE constraint left unchecked
UniqueUnchecked(table, key, value) == TRUE

\* the UNIQUE constraint on a column admits a new row with this value
Unique(table, key, value) == SelectIds(table, key, value) = {}

\* a rollback that writes the changes of the transaction to the database
rollback_keeping(d, work) == work

\* conn.rollback() (and conn.close() with a transaction open): the
\* database file keeps the committed state d, the changes are dropped
rollback(d, work) == d

\* what the database holds when the first call is made: nothing, or one
\* quote inserted earlier
StoredDbs ==
    {EmptyDb}
    \cup {insert_quote(EmptyDb, q.text, q.author, q.tags, "None").db : q \in Quotes}

\* the connection whose call ended in an exception: "except Exception:
\* conn.rollback(); raise e", then "finally: conn.close()"
Raised(conn, error) ==
    [conn EXCEPT !.pc = "done", !.outcome = "raised", !.error = error]

\* the database file and the lock after connection c rolled back
RollbackEffect(c) ==
    IF writer = c
    THEN /\ db' = rollback(db, conns[c].work)
         /\ writer' = 0
    ELSE UNCHANGED <<db, writer>>

InitTx ==
    /\ db \in StoredDbs
    /\ conns = NoConns
    /\ writer = 0
    /\ db_log = <<>>
    /\ db_call = NoCall
    /\ rh = DefaultRetryHandler
    /\ rh_call = NoCall
    /\ th = NoThrottler
    /\ now = 0
    /\ request_times = <<>>
    /\ consecutive_errors = 0
    /\ errors_since_success = 0
    /\ scrapers = NoScrapers
    /\ Stats = NoStats
    /\ runs = NoRuns
    /\ actor = NoActor
    /\ history = <<>>
    /\ slept = NotSlept
    /\ cd_call = NoCall
    /\ impl = "none"
    /\ max_retries = 0
    /\ pc = "done"
    /\ cur_attempt = 0
    /\ responses = <<>>
    /\ events = <<>>
    /\ backoff = 0
    /\ stats = NoStats
    /\ result = "pending"
    /\ driver = "none"
    /\ page_cap = 0
    /\ pg_pc = "done"
    /\ current_url = 1
    /\ page_number = 1
    /\ all_quotes = <<>>
    /\ fetched = <<>>
    /\ saved = NotSaved
    /\ session = NoSession
    /\ pr = NoRotator
    /\ pr_call = NoCall
    /\ pr_marks = <<>>

\* a process calls insert_quote(text, author, tags): get_connection()
TxCall ==
    /\ \E c \in Conns, quote \in Quotes :
        /\ conns[c].pc = "idle"
        /\ conns' = [conns EXCEPT ![c] = [@ EXCEPT !.pc = "select_quote",
                                                   !.quote = quote,
                                                   !.before = db]]
    /\ UNCHANGED <<db, writer, db_log, db_call, instanceVars, retryVars, throttleVars,
                   classifyVars, fetchVars, pageVars, proxyVars>>

\* SELECT id FROM quotes WHERE text = ?; a row found: return None
TxSelectQuote ==
    /\ \E c \in Conns :
        /\ conns[c].pc = "select_quote"
        /\ conns' = [conns EXCEPT ![c] =
              IF SelectIds(db.quotes, "text", @.quote.text) # {}
              THEN [@ EXCEPT !.pc = "done", !.outcome = "returned",
                             !.result = NoneId, !.after = db]
              ELSE [@ EXCEPT !.pc = "select_author"]]
    /\ UNCHANGED <<db, writer, db_log, db_call, instanceVars, retryVars, throttleVars,
                   classifyVars, fetchVars, pageVars, proxyVars>>

\* SELECT id FROM authors WHERE name = ?
TxSelectAuthor ==
    /\ \E c \in Conns :
        /\ conns[c].pc = "select_author"
        /\ conns' = [conns EXCEPT ![c] =
              IF SelectIds(db.authors, "name", @.quote.author) # {}
              THEN [@ EXCEPT !.pc = "insert_quote",
                             !.author_id = FetchoneId(db.authors, "name",
                                                      conns[c].quote.author)]
              ELSE [@ EXCEPT !.pc = "insert_author"]]
    /\ UNCHANGED <<db, writer, db_log, db_call, instanceVars, retryVars, throttleVars,
                   classifyVars, fetchVars, pageVars, proxyVars>>

\* INSERT INTO authors (name): the transaction begins, the write lock is
\* taken; a name another connection committed meanwhile violates UNIQUE
TxInsertAuthor ==
    /\ writer = 0
    /\ \E c \in Conns :
        /\ conns[c].pc = "insert_author"
        /\ IF Unique(db.authors, "name", conns[c].quote.author)
           THEN /\ conns' = [conns EXCEPT ![c] =
                      [@ EXCEPT !.pc = "insert_quote",
                                !.author_id = Len(db.authors) + 1,
                                !.work = [db EXCEPT !.authors =
                                    Append(@, [id |-> Len(db.authors) + 1,
                                               name |-> conns[c].quote.author])]]]
                /\ writer' = c
           ELSE /\ conns' = [conns EXCEPT ![c] = Raised(@, "IntegrityError")]
                /\ writer' = 0
    /\ UNCHANGED <<db, db_log, db_call, instanceVars, retryVars, throttleVars,
                   classifyVars, fetchVars, pageVars, proxyVars>>

\* INSERT INTO quotes (text, author_id, source_url), in the transaction the
\* author's INSERT began or in one that begins here; a text another
\* connection committed meanwhile violates UNIQUE: rollback and raise
TxInsertQuote ==
    /\ \E c \in Conns :
        LET view == IF writer = c THEN conns[c].work ELSE db
            quote_id == Len(view.quotes) + 1
        IN  /\ conns[c].pc = "insert_quote"
            /\ writer \in {0, c}
            /\ IF Unique(view.quotes, "text", conns[c].quote.text)
               THEN /\ conns' = [conns EXCEPT ![c] =
                          [@ EXCEPT !.pc = "tags",
                                    !.quote_id = quote_id,
                                    !.work = [view EXCEPT !.quotes =
                                        Append(@, [id |-> quote_id,
                                                   text |-> conns[c].quote.text,
                                                   author_id |-> conns[c].author_id,
                                                   source_url |-> "None"])]]]
                    /\ writer' = c
                    /\ db' = db
               ELSE /\ conns' = [conns EXCEPT ![c] = Raised(@, "IntegrityError")]
                    /\ RollbackEffect(c)
    /\ UNCHANGED <<db_log, db_call, instanceVars, retryVars, throttleVars,
                   classifyVars, fetchVars, pageVars, proxyVars>>

\* the loop "for tag_name in tags", inside the transaction
TxAddTags ==
    /\ \E c \in Conns :
        /\ conns[c].pc = "tags"
        /\ conns' = [conns EXCEPT ![c] =
              [@ EXCEPT !.pc = "commit",
                        !.work = AddTags(conns[c].work, conns[c].quote_id,
                                         conns[c].quote.tags)]]
    /\ UNCHANGED <<db, writer, db_log, db_call, instanceVars, retryVars, throttleVars,
                   classifyVars, fetchVars, pageVars, proxyVars>>

\* conn.commit(); return quote_id
TxCommit ==
    /\ \E c \in Conns :
        /\ conns[c].pc = "commit"
        /\ db' = conns[c].work
        /\ writer' = 0
        /\ conns' = [conns EXCEPT ![c] =
              [@ EXCEPT !.pc = "done", !.outcome = "returned",
                        !.result = RowId(conns[c].quote_id),
                        !.after = conns[c].work]]
    /\ UNCHANGED <<db_log, db_call, instanceVars, retryVars, throttleVars,
                   classifyVars, fetchVars, pageVars, proxyVars>>

\* an INSERT that waited timeout=30 seconds for the write lock another
\* connection holds: OperationalError "database is locked"
TxLocked ==
    /\ \E c \in Conns :
        /\ conns[c].pc \in {"insert_author", "insert_quote"}
        /\ writer \notin {0, c}
        /\ conns' = [conns EXCEPT ![c] = Raised(@, "OperationalError")]
    /\ UNCHANGED <<db, writer, db_log, db_call, instanceVars, retryVars, throttleVars,
                   classifyVars, fetchVars, pageVars, proxyVars>>

\* a statement or the commit of insert_quote raises (disk full, I/O error,
\* interrupt): rollback, the exception goes to the caller
TxError ==
    /\ \E c \in Conns :
        /\ conns[c].pc \in {"select_quote", "select_author", "insert_author",
                            "insert_quote", "tags", "commit"}
        /\ conns' = [conns EXCEPT ![c] = Raised(@, "Exception")]
        /\ RollbackEffect(c)
    /\ UNCHANGED <<db_log, db_call, instanceVars, retryVars, throttleVars,
                   classifyVars, fetchVars, pageVars, proxyVars>>

(***************************************************************************)
(* Two fetchers in one process: two AntiBotScraper instances               *)
(* (src/src/antibot.py), or two threads that call fetch_with_retry of      *)
(* final_antibot_scraper.py, whose counters are the attributes of the      *)
(* class Stats.  "Stats.requests += 1" is a read of the attribute followed *)
(* by a write of the sum; another thread may run between the two.          *)
(***************************************************************************)

\* AntiBotScraper(): RequestThrottler(1.0, 3.0), requests_per_minute=20
ScraperThrottler == [min_delay |-> 1000, max_delay |-> 3000, requests_per_minute |-> 20]

\* AntiBotScraper.__init__ without proxy_list: a throttler, a proxy rotator
\* and a statistics dict of its own
AntiBotScraper ==
    [throttler |-> [request_times |-> <<>>, consecutive_errors |-> 0],
     proxy_rotator |-> NoRotator,
     stats |-> NoStats]

\* a thread about to call fetch_with_retry(url) with max_retries=3
NewRun == [pc |-> "start", attempt |-> 0, counter |-> "requests", loaded |-> 0,
           after |-> "get"]

\* max_retries=3 of fetch_with_retry
FinalMaxRetries == 3

\* the counter a pass of the loop of fetch_with_retry increments
CounterOf(o) ==
    CASE o = "ok" -> "successful"
      [] o = "blocked" -> "blocks"
      [] OTHER -> "failed"

InitInstances ==
    /\ \/ scrapers = [i \in Instances |-> AntiBotScraper] /\ runs = NoRuns
       \/ scrapers = NoScrapers /\ runs = [j \in Instances |-> NewRun]
    /\ Stats = NoStats
    /\ actor = NoActor
    /\ rh = DefaultRetryHandler
    /\ rh_call = NoCall
    /\ th = NoThrottler
    /\ now = 0
    /\ request_times = <<>>
    /\ consecutive_errors = 0
    /\ errors_since_success = 0
    /\ conns = NoConns
    /\ writer = 0
    /\ history = <<>>
    /\ slept = NotSlept
    /\ cd_call = NoCall
    /\ impl = "none"
    /\ max_retries = 0
    /\ pc = "done"
    /\ cur_attempt = 0
    /\ responses = <<>>
    /\ events = <<>>
    /\ backoff = 0
    /\ stats = NoStats
    /\ result = "pending"
    /\ driver = "none"
    /\ page_cap = 0
    /\ pg_pc = "done"
    /\ current_url = 1
    /\ page_number = 1
    /\ all_quotes = <<>>
    /\ fetched = <<>>
    /\ saved = NotSaved
    /\ session = NoSession
    /\ db = EmptyDb
    /\ db_log = <<>>
    /\ db_call = NoCall
    /\ pr = NoRotator
    /\ pr_call = NoCall
    /\ pr_marks = <<>>

\* the instances are AntiBotScraper objects and fewer than MaxOps calls were made
ScraperCall == scrapers # NoScrapers /\ actor.calls < MaxOps

\* scraper.throttler.wait() on one instance
ScraperWait ==
    /\ ScraperCall
    /\ \E i \in Instances, u \in 0..DelaySteps :
        LET this == scrapers[i].throttler
            kept == Cleaned(this.request_times, now)
            limit == wait_time(kept, ScraperThrottler.requests_per_minute, now)
            delay == actual_delay(ScraperThrottler, this.consecutive_errors, u)
            t == now + limit + delay
        IN  /\ now' = t
            /\ scrapers' = [scrapers EXCEPT ![i].throttler.request_times = Append(kept, t)]
            /\ actor' = [last |-> i, calls |-> actor.calls + 1]
    /\ UNCHANGED <<txVars, Stats, runs, th, request_times, consecutive_errors, errors_since_success,
                   history, slept, retryVars, classifyVars, fetchVars, pageVars,
                   storeVars, proxyVars>>

\* scraper.throttler.record_error() on one instance
ScraperRecordError ==
    /\ ScraperCall
    /\ \E i \in Instances :
        /\ scrapers[i].throttler.consecutive_errors < MaxErrors
        /\ scrapers' = [scrapers EXCEPT ![i].throttler.consecutive_errors = @ + 1]
        /\ actor' = [last |-> i, calls |-> actor.calls + 1]
    /\ UNCHANGED <<txVars, Stats, runs, retryVars, throttleVars, classifyVars, fetchVars,
                   pageVars, storeVars, proxyVars>>

\* scraper.throttler.record_success() on one instance
ScraperRecordSuccess ==
    /\ ScraperCall
    /\ \E i \in Instances :
        /\ scrapers[i].throttler.consecutive_errors # 0
        /\ scrapers' = [scrapers EXCEPT ![i].throttler.consecutive_errors = 0]
        /\ actor' = [last |-> i, calls |-> actor.calls + 1]
    /\ UNCHANGED <<txVars, Stats, runs, retryVars, throttleVars, classifyVars, fetchVars,
                   pageVars, storeVars, proxyVars>>

\* scraper.proxy_rotator.add_proxy(proxy) on one instance
ScraperAddProxy ==
    /\ ScraperCall
    /\ \E i \in Instances, proxy \in ProxyConfigs :
        LET this == scrapers[i].proxy_rotator
        IN  /\ Len(this.proxies) < MaxProxies
            /\ \A k \in 1..Len(this.proxies) : this.proxies[k] # proxy
            /\ scrapers' = [scrapers EXCEPT ![i].proxy_rotator = add_proxy(this, proxy)]
            /\ actor' = [last |-> i, calls |-> actor.calls + 1]
    /\ UNCHANGED <<txVars, Stats, runs, retryVars, throttleVars, classifyVars, fetchVars,
                   pageVars, storeVars, proxyVars>>

\* scraper.get_request_config() with use_proxies: proxy_rotator.get_next()
ScraperGetRequestConfig ==
    /\ ScraperCall
    /\ \E i \in Instances :
        /\ scrapers' = [scrapers EXCEPT
                           ![i].proxy_rotator = get_next(@).pr]
        /\ actor' = [last |-> i, calls |-> actor.calls + 1]
    /\ UNCHANGED <<txVars, Stats, runs, retryVars, throttleVars, classifyVars, fetchVars,
                   pageVars, storeVars, proxyVars>>

\* scraper.proxy_rotator.mark_failed(proxy.to_dict()) on one instance
ScraperMarkFailed ==
    /\ ScraperCall
    /\ \E i \in Instances :
        LET this == scrapers[i].proxy_rotator
        IN  \E k \in 1..Len(this.proxies) :
                /\ scrapers' = [scrapers EXCEPT
                       ![i].proxy_rotator = mark_failed(this, to_dict(this.proxies[k]))]
                /\ actor' = [last |-> i, calls |-> actor.calls + 1]
    /\ UNCHANGED <<txVars, Stats, runs, retryVars, throttleVars, classifyVars, fetchVars,
                   pageVars, storeVars, proxyVars>>

\* scraper.stats['requests'] += 1 by the caller of one instance
ScraperCount ==
    /\ ScraperCall
    /\ \E i \in Instances :
        /\ scrapers' = [scrapers EXCEPT ![i].stats.requests = @ + 1]
        /\ actor' = [last |-> i, calls |-> actor.calls + 1]
    /\ UNCHANGED <<txVars, Stats, runs, retryVars, throttleVars, classifyVars, fetchVars,
                   pageVars, storeVars, proxyVars>>

\* fetch_with_retry, "Stats.requests += 1": the read of Stats.requests
RunFetchWithRetry ==
    /\ \E j \in Instances :
        /\ runs[j].pc = "start"
        /\ runs' = [runs EXCEPT ![j] = [@ EXCEPT !.pc = "store",
                                                  !.counter = "requests",
                                                  !.loaded = Stats.requests,
                                                  !.after = "get"]]
        /\ actor' = [actor EXCEPT !.last = j]
    /\ UNCHANGED <<txVars, scrapers, Stats, retryVars, throttleVars, classifyVars, fetchVars,
                   pageVars, storeVars, proxyVars>>

\* the write that ends "Stats.<counter> += 1"
RunStore ==
    /\ \E j \in Instances :
        /\ runs[j].pc = "store"
        /\ Stats' = [Stats EXCEPT ![runs[j].counter] = runs[j].loaded + 1]
        /\ runs' = [runs EXCEPT ![j].pc = runs[j].after]
        /\ actor' = [actor EXCEPT !.last = j]
    /\ UNCHANGED <<txVars, scrapers, retryVars, throttleVars, classifyVars, fetchVars,
                   pageVars, storeVars, proxyVars>>

\* one pass of the loop of fetch_with_retry up to the read of the counter
\* it increments: Stats.successful, Stats.blocks or Stats.failed
RunAttempt ==
    /\ \E j \in Instances, r \in Responses :
        LET o == final_outcome(r)
            last == runs[j].attempt >= FinalMaxRetries - 1
        IN  /\ runs[j].pc = "get"
            /\ runs' = [runs EXCEPT ![j] =
                           [pc |-> "store",
                            attempt |-> IF o = "ok" \/ last THEN @.attempt
                                        ELSE @.attempt + 1,
                            counter |-> CounterOf(o),
                            loaded |-> Stats[CounterOf(o)],
                            after |-> IF o = "ok" \/ last THEN "done" ELSE "get"]]
            /\ actor' = [actor EXCEPT !.last = j]
    /\ UNCHANGED <<txVars, scrapers, Stats, retryVars, throttleVars, classifyVars, fetchVars,
                   pageVars, storeVars, proxyVars>>

(***************************************************************************)
(* Specifications                                                          *)
(***************************************************************************)

\* the RetryHandler alone: one method call on a freshly built handler
NextRetry ==
    \/ CallShouldRetry
    \/ CallGetDelay
    \/ CallAdvGetDelay

SpecRetry ==
    InitRetry /\ [][NextRetry]_vars

\* the RequestThrottler alone: any sequence of wait / record_success /
\* record_error calls, with time passing between them
NextThrottle ==
    \/ Wait
    \/ RecordSuccess
    \/ RecordError
    \/ Idle

SpecThrottle ==
    InitThrottle /\ [][NextThrottle]_vars

\* the block classifiers alone: one call
NextClassify ==
    \/ CallIsCaptchaPage
    \/ CallIsBlocked
    \/ CallAdvIsBlocked
    \/ CallFinalIsBlocked
    \/ CallGetBlockReason
    \/ BlockCheck

SpecClassify == InitClassify /\ [][NextClassify]_vars

\* the quotes store: any sequence of insert_quote / insert_quotes_batch calls
\* on a new database
NextStore ==
    \/ InsertQuote
    \/ InsertQuotesBatch

SpecStore == InitStore /\ [][NextStore]_vars

\* one run of main() of one of the pagination drivers
NextPage ==
    \/ LoopPass
    \/ SaveAll
    \/ DbLoopPass
    \/ DbCloseSession

SpecPage == InitPage /\ [][NextPage]_vars

\* a ProxyRotator: any sequence of calls of its methods
NextProxy ==
    \/ AddProxy
    \/ GetNext
    \/ GetRandom
    \/ MarkFailed
    \/ MarkSuccess
    \/ ResetFailed

SpecProxy == InitProxy /\ [][NextProxy]_vars

\* two AntiBotScraper instances, or two threads calling fetch_with_retry,
\* their steps interleaved in any order
NextInstances ==
    \/ ScraperWait
    \/ ScraperRecordError
    \/ ScraperRecordSuccess
    \/ ScraperAddProxy
    \/ ScraperGetRequestConfig
    \/ ScraperMarkFailed
    \/ ScraperCount
    \/ RunFetchWithRetry
    \/ RunStore
    \/ RunAttempt

SpecInstances == InitInstances /\ [][NextInstances]_vars

\* a pagination run of one of the scripts, or one fetch by fetch_with_retry
\* or WebScraper.fetch_page, run to its end
InitTermination ==
    \/ InitPage
    \/ InitFetch /\ impl \in {"final", "basic"}

NextTermination ==
    \/ LoopPass
    \/ SaveAll
    \/ DbLoopPass
    \/ DbCloseSession
    \/ FinalFetchPage
    \/ FinalAttempt
    \/ BasicAttempt
    \/ BackoffSleep

\* the scripts are single-threaded and every blocking call returns (each
\* GET carries timeout=30, each sleep is finite), so a run that can take a
\* step takes one
SpecTermination ==
    InitTermination /\ [][NextTermination]_vars /\ WF_vars(NextTermination)

\* two processes, each making one insert_quote call, their statements
\* interleaved in any order
NextTx ==
    \/ TxCall
    \/ TxSelectQuote
    \/ TxSelectAuthor
    \/ TxInsertAuthor
    \/ TxInsertQuote
    \/ TxAddTags
    \/ TxCommit
    \/ TxLocked

SpecTx == InitTx /\ [][NextTx]_vars

\* the same, any statement being able to fail
NextTxFaulty ==
    \/ TxCall
    \/ TxSelectQuote
    \/ TxSelectAuthor
    \/ TxInsertAuthor
    \/ TxInsertQuote
    \/ TxAddTags
    \/ TxCommit
    \/ TxLocked
    \/ TxError

SpecTxFaulty == InitTx /\ [][NextTxFaulty]_vars

\* the fetches of one run, one after the other
NextStats ==
    \/ StatsFinalFetch
    \/ StatsAdvFetch

SpecStats == InitStats /\ [][NextStats]_vars

\* one fetch of one URL by one of the fetch functions
NextFetch ==
    \/ FinalFetchPage
    \/ FinalAttempt
    \/ AdvFetchPage
    \/ AdvAttempt
    \/ BasicAttempt
    \/ ExecAttempt
    \/ BackoffSleep

SpecFetch == InitFetch /\ [][NextFetch]_vars

(***************************************************************************)
(* Claims about RetryHandler                                               *)
(***************************************************************************)

\* C1: should_retry(attempt, status_code) returns false for every
\* attempt >= max_retries, whatever the status code is (none, 0, retryable
\* or not).
C1_NoRetryAtOrPastMax ==
    (rh_call.op = "should_retry" /\ rh_call.attempt >= rh.max_retries)
        => rh_call.result = FALSE

\* C1 witness: a call with a retryable status code (503) at
\* attempt = max_retries > 0 that returned false.
C1_Witness ==
    /\ rh_call.op = "should_retry"
    /\ rh.max_retries > 0
    /\ rh_call.attempt = rh.max_retries
    /\ rh_call.status_code = 503
    /\ rh_call.result = FALSE

\* C2: for every attempt < max_retries, should_retry follows the status
\* table: true for 408, 429, 500, 502, 503, 504; false for every other
\* status code in 400..499; true for everything else, the absent status
\* code included.
C2_StatusTable ==
    (rh_call.op = "should_retry" /\ rh_call.attempt < rh.max_retries)
        => rh_call.result =
              IF rh_call.status_code \in {408, 429, 500, 502, 503, 504} THEN TRUE
              ELSE IF rh_call.status_code \in 400..499 THEN FALSE
              ELSE TRUE

\* C2 witness: a call below max_retries with status 404 that returned false.
C2_Witness ==
    /\ rh_call.op = "should_retry"
    /\ rh_call.attempt < rh.max_retries
    /\ rh_call.status_code = 404
    /\ rh_call.result = FALSE

\* C3: get_delay(attempt) is at most the cap (max_delay of the handler;
\* 60 s in advanced_scraper), for every attempt and every jitter draw.
C3_DelayCapped ==
    rh_call.op \in {"get_delay", "adv_get_delay"}
        => rh_call.result <= rh_call.cap

\* C3 witness: a get_delay call whose uncapped delay exceeds max_delay and
\* which returned exactly max_delay.
C3_Witness ==
    /\ rh_call.op = "get_delay"
    /\ get_delay_uncapped(rh, rh_call.attempt, rh_call.k) > rh.max_delay
    /\ rh_call.result = rh.max_delay

(***************************************************************************)
(* Claims about RequestThrottler                                           *)
(***************************************************************************)

\* the recorded request timestamps inside the trailing window (T - 60 s, T]
InWindow(T) == {i \in 1..Len(history) : history[i] > T - Window /\ history[i] <= T}

\* C4: for any sequence of wait() calls, with requests_per_minute = N >= 1
\* and any delays and clock advances, no trailing 60-second window
\* (T - 60 s, T] holds more than N recorded request timestamps.  The count
\* of a window only grows when T reaches a recorded timestamp, so the
\* windows that end at a recorded timestamp or now decide the claim.
C4_AtMostNPerWindow ==
    \A T \in {history[i] : i \in 1..Len(history)} \cup {now} :
        Cardinality(InWindow(T)) <= th.requests_per_minute

\* C4 witness: more than N requests were recorded and the last wait() had
\* to sleep for the rate limit.
C4_Witness ==
    /\ Len(history) > th.requests_per_minute
    /\ slept.limit > 0
    /\ Cardinality(InWindow(now)) = th.requests_per_minute

C10_BlockStatusAnyBody ==
    (/\ cd_call.op \in {"is_blocked", "final_is_blocked", "adv_is_blocked"}
     /\ cd_call.status_code \in {403, 429, 503})
        => cd_call.result = "True"

\* C10 witness: is_blocked(429, html) returned true for a normal page,
\* which the same function does not block under status 200.
C10_Witness ==
    /\ cd_call.op = "is_blocked"
    /\ cd_call.status_code = 429
    /\ cd_call.html = normal_html
    /\ cd_call.result = "True"
    /\ ~is_blocked(200, normal_html)

\* the body holds, as a literal substring and whatever the case of its
\* letters, one of the indicator phrases or one of the CAPTCHA DOM markers
HasMarker(html) ==
    /\ html # None
    /\ \E m \in CAPTCHA_INDICATORS \cup captcha_elements :
          \E i \in 1..Len(html) :
              /\ i + Len(m) - 1 <= Len(html)
              /\ \A j \in 1..Len(m) : LowerChar(html[i + j - 1]) = m[j]

\* C11: CaptchaDetector classifies a response whose status is outside
\* {403, 429, 503} as OK (is_blocked false, is_captcha_page false, no
\* CAPTCHA reason) if and only if its body contains, compared
\* case-insensitively as literal substrings, none of the indicator phrases
\* and none of the CAPTCHA DOM markers; the reCAPTCHA widget with a
\* data-sitekey attribute is classified CAPTCHA and "<html>hello</html>"
\* is classified OK.
C11_OkIffNoMarker ==
    /\ (cd_call.op = "is_blocked" /\ cd_call.status_code \notin {403, 429, 503})
          => (cd_call.result = "False" <=> ~HasMarker(cd_call.html))
    /\ (cd_call.op = "is_captcha_page" /\ cd_call.url = None)
          => (cd_call.result = "False" <=> ~HasMarker(cd_call.html))
    /\ (cd_call.op = "get_block_reason"
            /\ cd_call.status_code \notin {403, 429, 503})
          => /\ HasMarker(cd_call.html)
                  => cd_call.result = "CAPTCHA Challenge Detected"
             /\ ~HasMarker(cd_call.html)
                  => cd_call.result = "Unknown block reason"
    /\ (cd_call.op \in {"is_blocked", "get_block_reason"}
            /\ cd_call.status_code = 200)
          => /\ cd_call.html = widget_html => cd_call.result
                  \in {"True", "CAPTCHA Challenge Detected"}
             /\ cd_call.html = hello_html => cd_call.result
                  \in {"False", "Unknown block reason"}

\* C11 witness: is_blocked(200, html) returned true for a body whose only
\* marker is a data-sitekey attribute, which is a DOM marker and holds no
\* indicator phrase.
C11_Witness ==
    /\ cd_call.op = "is_blocked"
    /\ cd_call.status_code = 200
    /\ cd_call.html = sitekey_html
    /\ cd_call.result = "True"
    /\ ~\E m \in CAPTCHA_INDICATORS : Contains(Lower(sitekey_html), m)

\* the URL holds one of the challenge-URL substrings
ChallengeUrl(url) ==
    url # None /\ \E pattern \in CAPTCHA_URLS : Contains(Lower(url), pattern)

\* C12 as stated: a response with a non-block status and a clean body whose
\* URL contains a challenge-URL substring (hcaptcha.com) is classified as
\* not OK by the block check the fetch path applies to it.
C12_Claim ==
    (/\ cd_call.op = "block_check"
     /\ cd_call.status_code \notin {403, 429, 503}
     /\ ~HasMarker(cd_call.html)
     /\ ChallengeUrl(cd_call.url))
        => cd_call.result = "True"

(***************************************************************************)
(* Claims about one fetch                                                  *)
(***************************************************************************)

\* the transport calls and backoff sleeps of the fetch, in order
GetsAndSleeps == SelectSeq(events, LAMBDA e : e # "wait")

\* a 200 response with a page that no classifier objects to
CleanPage(r) == ~r.exc /\ r.status = 200 /\ r.text = hello_html

\* the transport answered 503, 503, then a clean 200
Script503_503_200 ==
    /\ Len(responses) = 3
    /\ responses[1].status = 503
    /\ responses[2].status = 503
    /\ CleanPage(responses[3])

\* C5 as stated: given a transport that answers 503, 503, then 200, fetch
\* (with the default max_retries = 3) returns success after exactly 3
\* transport attempts and sleeps a backoff delay between attempts 1 and 2
\* only, that is once.
C5_Original ==
    (max_retries = 3 /\ pc = "done" /\ Script503_503_200)
        => /\ result = "html"
           /\ GetsAndSleeps = <<"get", "sleep", "get", "get">>

\* C5 as amended: given a transport that answers 503, 503, then 200, fetch
\* (with max_retries >= 3; 3 is the default) goes on after each 503 and
\* returns success after exactly 3 transport attempts, having slept a
\* backoff delay after each of the two failed attempts: between attempts
\* 1 and 2 and between attempts 2 and 3.
C5_SleepsAfterEachFailure ==
    max_retries >= 3 =>
        /\ (Len(responses) = 1 /\ responses[1].status = 503) => pc # "done"
        /\ (Len(responses) = 2 /\ responses[1].status = 503
                /\ responses[2].status = 503) => pc # "done"
        /\ Script503_503_200 =>
              /\ pc = "done"
              /\ result = "html"
              /\ GetsAndSleeps = <<"get", "sleep", "get", "sleep", "get">>

\* C5 witness: fetch_with_retry with max_retries = 3 has returned the page
\* after the transport answered 503, 503, 200.
C5_Witness ==
    /\ impl = "final"
    /\ max_retries = 3
    /\ pc = "done"
    /\ Script503_503_200
    /\ result = "html"
    /\ backoff > 0

\* C6 as stated: a fetch runs attempts 0..max_retries inclusive: when every
\* attempt ends in a retryable failure (here a transport exception) it
\* issues exactly max_retries + 1 transport calls and then returns a
\* terminal failure, and it never issues more than max_retries + 1 calls.
C6_Claim ==
    /\ Len(responses) <= max_retries + 1
    /\ (/\ pc = "done"
        /\ responses # <<>>
        /\ \A i \in 1..Len(responses) : responses[i].exc)
          => /\ Len(responses) = max_retries + 1
             /\ result \in {"None", "raised"}

\* a status code the status table of should_retry does not retry
NotRetryable(status_code) == ~should_retry([max_retries |-> 1], 0, status_code)

\* C7 as stated: an HTTP error response is retried only when its status
\* code is retryable per the table of should_retry: a response with a
\* non-retryable client status (404) ends the fetch in failure after that
\* attempt, with no further transport call.
C7_Claim ==
    \A i \in 1..Len(responses) :
        (~responses[i].exc /\ NotRetryable(responses[i].status))
            => /\ i = Len(responses)
               /\ pc = "done"
               /\ result \in {"None", "raised"}

\* a response that is a CAPTCHA page: status 200 with a CAPTCHA indicator in
\* the body
CaptchaPage(r) == ~r.exc /\ r.status = 200 /\ is_captcha_page(r.text, None)

\* C8 as stated: a response classified as CAPTCHA is terminal for the URL:
\* fetch (fetch_with_retry, advanced_scraper.fetch_page) makes no further
\* attempt after it, and reports it as a CAPTCHA condition distinct from an
\* ordinary block or error, counted in captchas.
C8_Claim ==
    impl \in {"final", "advanced"} =>
        \A i \in 1..Len(responses) :
            CaptchaPage(responses[i])
                => /\ i = Len(responses)
                   /\ pc = "done"
                   /\ result = "captcha"
                   /\ stats.captchas > 0

\* C9 as stated: every transport GET, each retry included, is preceded by
\* its own wait() call: no two transport calls occur without a wait()
\* between them (fetch_page of advanced_scraper and final_antibot_scraper).
C9_Original ==
    impl \in {"final", "advanced"} =>
        \A j \in 1..Len(events) :
            events[j] = "get" => j > 1 /\ events[j - 1] = "wait"

\* C9 as amended: every fetch of a URL makes exactly one wait() call
\* (throttler.wait() / smart_delay()), before its first transport GET;
\* each later transport GET of that fetch is preceded by a backoff sleep,
\* not by a wait().
C9_OneWaitPerFetch ==
    (impl \in {"final", "advanced"} /\ pc # "start") =>
        /\ events # <<>>
        /\ events[1] = "wait"
        /\ \A j \in 2..Len(events) :
              /\ events[j] # "wait"
              /\ events[j] = "get" => (j = 2 \/ events[j - 1] = "sleep")

\* C9 witness: advanced_scraper.fetch_page has made a second transport GET
\* after one wait() and one backoff sleep.
C9_Witness ==
    /\ impl = "advanced"
    /\ events = <<"wait", "get", "sleep", "get">>

(***************************************************************************)
(* Claims about the quotes store                                           *)
(***************************************************************************)

\* the insert_quote calls that returned a quote id
AddedCalls == {i \in 1..Len(db_log) : ~db_log[i].result.is_none}

\* C17: after any sequence of insert_quote / insert_quotes_batch calls on a
\* new database the quotes table holds at most one row per distinct quote
\* text, exactly the texts inserted so far; the first insert of a text
\* returns a quote id and every later insert of the same text returns None;
\* insert_quotes_batch counts every quote of its list as added (an id was
\* returned) or as skipped (None was returned).
C17_OneRowPerText ==
    /\ \A i, j \in 1..Len(db.quotes) :
          db.quotes[i].text = db.quotes[j].text => i = j
    /\ {db.quotes[i].text : i \in 1..Len(db.quotes)}
          = {db_log[i].text : i \in 1..Len(db_log)}
    /\ \A i \in 1..Len(db_log) :
          db_log[i].result.is_none
              <=> \E j \in 1..(i - 1) : db_log[j].text = db_log[i].text
    /\ \A i \in AddedCalls :
          /\ db_log[i].result.id \in 1..Len(db.quotes)
          /\ db.quotes[db_log[i].result.id].text = db_log[i].text
    /\ db_call.op = "insert_quotes_batch" =>
          LET n == Len(db_call.quotes)
              first == Len(db_log) - n
          IN  /\ db_call.added + db_call.skipped = n
              /\ db_call.added
                    = Cardinality(AddedCalls \cap ((first + 1)..Len(db_log)))

\* C17 witness: a batch holding the same text twice was inserted after that
\* text was already stored: one row, nothing added, two skips.
C17_Witness ==
    /\ db_call.op = "insert_quotes_batch"
    /\ Len(db_call.quotes) = 2
    /\ db_call.quotes[1].text = "q1"
    /\ db_call.quotes[2].text = "q1"
    /\ db_call.added = 0
    /\ db_call.skipped = 2
    /\ Len(db.quotes) = 1

\* C28: an insert_quote call whose text is already stored returns None and
\* leaves the database unchanged: no author row, no tag row and no
\* quote_tags link is created and the stored quote is not modified, even
\* when the author, tags or source_url passed differ from the stored ones.
C28_DuplicateUnchanged ==
    [][(/\ db_log' # db_log
        /\ db_call'.op = "insert_quote"
        /\ SelectIds(db.quotes, "text", db_call'.text) # {})
          => /\ db_call'.result = NoneId
             /\ db' = db]_vars

\* the stored quote row with this text
Stored(text) == db.quotes[FetchoneId(db.quotes, "text", text)]

\* C28 witness: insert_quote was called for a stored text with an author
\* that has no row, with tags that have no row and with another source_url
\* than the stored one; it returned None and none of them was stored.
C28_Witness ==
    /\ db_call.op = "insert_quote"
    /\ db_call.result = NoneId
    /\ SelectIds(db.authors, "name", db_call.author) = {}
    /\ db_call.tags # <<>>
    /\ SelectIds(db.tags, "name", db_call.tags[1]) = {}
    /\ Stored(db_call.text).source_url # db_call.source_url

(***************************************************************************)
(* Claims about the pagination loops                                       *)
(***************************************************************************)

\* the items of the given passes, in page order
RECURSIVE ConcatItems(_)
ConcatItems(passes) ==
    IF passes = <<>> THEN <<>>
    ELSE Head(passes).items \o ConcatItems(Tail(passes))

\* every pass so far fetched a page
AllFetched == \A i \in 1..Len(fetched) : fetched[i].kind = "html"

\* the items extracted so far were reported: written to the output files
\* (which main() writes only when there are items), or held by the database
\* with every one of them counted as added or skipped
Reported ==
    LET items == ConcatItems(fetched)
    IN  IF driver = "db_scraper"
        THEN /\ \A i \in 1..Len(items) :
                   \E j \in 1..Len(db.quotes) : db.quotes[j].text = items[i].text
             /\ session.added + session.skipped = Len(items)
             /\ session.status \in {"completed", "interrupted"}
        ELSE IF items = <<>> THEN saved = NotSaved
             ELSE saved = [written |-> TRUE, data |-> items]

\* C13: if pages 1..P were all fetched successfully and page P has no next
\* link, then P <= page_cap, the loop has stopped after exactly P fetches
\* (no further pass is made), and the items collected are the concatenation
\* of all pages' items in page order, which main() then reports.
C13_AllPagesCollected ==
    (/\ fetched # <<>>
     /\ AllFetched
     /\ ~fetched[Len(fetched)].next)
        => /\ Len(fetched) <= page_cap
           /\ pg_pc \in {"break", "done"}
           /\ \A i \in 1..(Len(fetched) - 1) : fetched[i].next
           /\ driver # "db_scraper" => all_quotes = ConcatItems(fetched)
           /\ pg_pc = "done" => Reported

\* C13 witness: final_antibot_scraper.main fetched 3 pages of 3 items, the
\* third without a next link, and saved exactly 9 items after 3 fetches.
C13_Witness ==
    /\ driver = "final"
    /\ page_cap >= 3
    /\ Len(fetched) = 3
    /\ \A i \in 1..3 : fetched[i].kind = "html" /\ Len(fetched[i].items) = 3
    /\ ~fetched[3].next
    /\ pg_pc = "done"
    /\ saved.written
    /\ Len(saved.data) = 9

\* C14: the pagination loop never fetches more than page_cap pages in one
\* run, and when every fetched page has a next link it stops after exactly
\* page_cap pages.
C14_PageCap ==
    /\ Len(fetched) <= page_cap
    /\ (/\ pg_pc = "done"
        /\ AllFetched
        /\ \A i \in 1..Len(fetched) : fetched[i].next)
          => Len(fetched) = page_cap

\* C14 witness: with page_cap = 2 and a next link on both pages,
\* db_scraper.main fetched exactly 2 pages and finished.
C14_Witness ==
    /\ driver = "db_scraper"
    /\ page_cap = 2
    /\ Len(fetched) = 2
    /\ AllFetched
    /\ fetched[1].next /\ fetched[2].next
    /\ pg_pc = "done"
    /\ session.status = "completed"
    /\ session.pages = 2

\* C15 as stated: in every pagination driver, when the fetch of page k+1
\* fails after k pages were fetched and extracted, the driver makes no
\* further fetch and still reports all items extracted from those k pages.
C15_Claim ==
    (/\ fetched # <<>>
     /\ fetched[Len(fetched)].kind \in {"None", "raise"})
        => /\ pg_pc \in {"break", "done"}
           /\ pg_pc = "done" => Reported

\* C16 as stated: when a run is cancelled (interrupt signal) at a blocking
\* point, the driver returns or persists the items collected so far and the
\* cancellation does not propagate out of the driver as an error.
C16_Claim ==
    (/\ fetched # <<>>
     /\ fetched[Len(fetched)].kind = "interrupt")
        => /\ pg_pc \in {"break", "done"}
           /\ pg_pc = "done" => Reported

(***************************************************************************)
(* Claims about the ProxyRotator                                           *)
(***************************************************************************)

\* the pool positions whose proxy was not failed when the last get_next /
\* get_random call was made: its "host:port" was not in failed_proxies
Usable ==
    {i \in 1..Len(pr_call.proxies) :
        HostPort(pr_call.proxies[i]) \notin pr_call.failed_proxies}

\* C18: get_next() (and get_random()) returns None, the outcome 'no proxy
\* available', exactly when the pool is empty or every pool proxy is failed
\* (its "host:port" is in failed_proxies); whenever at least one pool proxy
\* is not failed it returns the dict of a pool proxy that is not failed.
C18_NoneIffNoneUsable ==
    pr_call.op \in {"get_next", "get_random"} =>
        /\ pr_call.result.is_none <=> Usable = {}
        /\ ~pr_call.result.is_none =>
              \E i \in Usable :
                  pr_call.result.dict = to_dict(pr_call.proxies[i])

\* C18 witness: get_next() returned None on a pool of two proxies that are
\* both failed.
C18_Witness ==
    /\ pr_call.op = "get_next"
    /\ Len(pr_call.proxies) = 2
    /\ \A i \in 1..2 : HostPort(pr_call.proxies[i]) \in pr_call.failed_proxies
    /\ pr_call.result.is_none

\* C19 as stated: once a pool proxy was marked failed with mark_failed
\* (passing the dict get_next returns for it), neither get_next nor
\* get_random returns that proxy again until reset_failed() is called, for
\* every ProxyConfig: with or without credentials and for any protocol.
C19_Claim ==
    (pr_call.op \in {"get_next", "get_random"} /\ ~pr_call.result.is_none)
        => \A proxy \in pr_call.failed : pr_call.result.dict # to_dict(proxy)

\* the counter proxy_stats keeps for a proxy; 0 when it keeps none
Counter(proxy, field) ==
    IF HostPort(proxy) \in DOMAIN pr.proxy_stats
    THEN pr.proxy_stats[HostPort(proxy)][field]
    ELSE 0

\* C20 as stated: after any sequence of mark_failed / mark_success calls,
\* for every proxy of the pool (given to the constructor or added with
\* add_proxy) the failure counter equals the number of mark_failed calls
\* for it and the success counter the number of mark_success calls for it.
C20_Claim ==
    \A proxy \in InPool :
        /\ Counter(proxy, "failure") = pr_marks.failure[proxy]
        /\ Counter(proxy, "success") = pr_marks.success[proxy]

(***************************************************************************)
(* Claims about the statistics and the retry wrapper                       *)
(***************************************************************************)

\* how the fetch function at work classifies a response
outcome_of(r) ==
    CASE impl = "final" -> final_outcome(r)
      [] impl = "advanced" -> adv_outcome(r)
      [] OTHER -> basic_outcome(r)

\* the attempts of the fetch that ended in an error or a block
ErrorAttempts == {k \in DOMAIN responses : outcome_of(responses[k]) # "ok"}

\* C22 as stated: no error is silently swallowed: when a fetch
\* (fetch_with_retry, advanced_scraper.fetch_page) has returned, every
\* attempt of it that ended in an error (transport exception, HTTP error
\* status, block) has been counted in failed, blocks or captchas, and the
\* fetch is counted in requests.
C22_Claim ==
    (impl \in {"final", "advanced"} /\ pc = "done") =>
        /\ stats.requests = 1
        /\ Cardinality(ErrorAttempts)
              <= stats.failed + stats.blocks + stats.captchas

\* C30: in every reachable state of the statistics (the class Stats of
\* final_antibot_scraper, the stats dict of advanced_scraper)
\* successful <= requests: each fetch call increments requests by exactly
\* one and successful by at most one, so the printed success rate,
\* successful / requests * 100, never exceeds 100.
C30_SuccessfulAtMostRequests ==
    /\ [](stats.successful <= stats.requests)
    /\ [][stats' # stats =>
            /\ stats'.requests = stats.requests + 1
            /\ stats'.successful \in {stats.successful, stats.successful + 1}]_vars

\* C30 witness: two fetches that both succeeded after failed attempts:
\* successful has reached requests while failures were counted.
C30_Witness ==
    /\ stats.requests = 2
    /\ stats.successful = 2
    /\ stats.failed + stats.blocks > 0

\* C24 as stated: execute_with_retry(func) returns the result of func from
\* the first attempt that does not raise, or None if all max_retries + 1
\* attempts fail.
C24_Claim ==
    (impl = "execute_with_retry" /\ pc = "done") =>
        IF basic_outcome(responses[Len(responses)]) = "ok"
        THEN /\ result = "html"
             /\ \A k \in 1..(Len(responses) - 1) : basic_outcome(responses[k]) # "ok"
        ELSE /\ Len(responses) = max_retries + 1
             /\ result = "None"

\* the pagination loop and the fetch have reached their end states
Ended == pg_pc \in {"done", "raised"} /\ pc = "done"

\* C25: every pagination run terminates: whatever the server does, next
\* links that point at the page itself or at an earlier page and fetches
\* that fail on every attempt included, the loop reaches its end state, after
\* at most page_cap fetches, and a fetch ends after at most max_retries + 1
\* transport attempts.
C25_Terminates ==
    /\ <>Ended
    /\ [](/\ Len(fetched) <= page_cap
          /\ Len(responses) <= max_retries + 1)

\* C25 witness: a run ended at the page cap after three pages that each
\* had a next link, the last of them pointing back at the first page.
C25_Witness ==
    /\ pg_pc = "done"
    /\ driver = "final"
    /\ Len(fetched) = 3
    /\ \A k \in 1..3 : fetched[k].kind = "html" /\ fetched[k].next
    /\ current_url = 1

\* the insert_quote calls of the run that found the text stored
SkippedCalls == {i \in 1..Len(db_log) : db_log[i].result.is_none}

\* C29 as stated: when db_scraper.main has left its scraping loop on any
\* path (page cap, no next link, fetch failure, interrupt, an exception in
\* the middle of a page's batch insert), the session row no longer has
\* status 'running', its quotes_added is the number of quote rows inserted
\* during the run and its quotes_skipped the number of duplicates met.
C29_Claim ==
    (driver = "db_scraper" /\ pg_pc = "done") =>
        /\ session.status # "running"
        /\ session.added = Len(db.quotes)
        /\ session.skipped = Cardinality(SkippedCalls)

(***************************************************************************)
(* Claims about insert_quote, statement by statement                       *)
(***************************************************************************)

\* no two rows of the table share the value of the key column
NoDuplicate(table, key) ==
    \A i, j \in 1..Len(table) : table[i][key] = table[j][key] => i = j

\* both insert_quote calls were made and have ended
BothEnded == \A c \in Conns : conns[c].pc = "done"

\* C26: under any interleaving of two insert_quote calls for the same quote
\* text made through separate connections, the store never holds two quote
\* rows with that text, and holds exactly one when both calls have ended;
\* no two author rows and no two tag rows ever share a name.
C26_OneRowPerName ==
    /\ NoDuplicate(db.quotes, "text")
    /\ NoDuplicate(db.authors, "name")
    /\ NoDuplicate(db.tags, "name")
    /\ (BothEnded /\ conns[1].quote.text = conns[2].quote.text)
          => Cardinality(SelectIds(db.quotes, "text", conns[1].quote.text)) = 1

\* C26 witness: two calls for the same text that both started on a
\* database without it; the first committed its row, the second, past its
\* SELECT before that commit, ran into the UNIQUE constraint and raised.
C26_Witness ==
    /\ BothEnded
    /\ conns[1].quote.text = conns[2].quote.text
    /\ conns[1].before = conns[2].before
    /\ SelectIds(conns[1].before.quotes, "text", conns[1].quote.text) = {}
    /\ conns[1].outcome = "returned"
    /\ ~conns[1].result.is_none
    /\ conns[2].outcome = "raised"
    /\ conns[2].error = "IntegrityError"
    /\ Cardinality(SelectIds(db.quotes, "text", conns[1].quote.text)) = 1

\* connection c committed a new quote
Committed(c) == conns[c].outcome = "returned" /\ ~conns[c].result.is_none

\* C27: insert_quote is atomic: when a call fails partway (an error while
\* inserting the author, the quote or a tag, or at commit), it ends with
\* the exception raised to the caller and the database holds no row the
\* call wrote: it is what it was when the call began or, if the other
\* call committed since, what that commit left.
C27_Atomic ==
    \A c \in Conns :
        conns[c].outcome = "raised" =>
            /\ writer # c
            /\ db \in {conns[c].before}
                      \cup {conns[o].after : o \in {x \in Conns : Committed(x)}}

\* C27 witness: a call failed after it had inserted its author and its
\* quote; the other call was never made and the database is as it was.
C27_Witness ==
    /\ conns[1].outcome = "raised"
    /\ conns[1].error = "Exception"
    /\ conns[2].pc = "idle"
    /\ Len(conns[1].work.quotes) > Len(conns[1].before.quotes)
    /\ Len(conns[1].work.authors) > Len(conns[1].before.authors)
    /\ db = conns[1].before

(***************************************************************************)
(* Claims about two fetchers in one process                                *)
(***************************************************************************)

\* the mutable state seen through instance (or thread) i
Observed(i) == <<scrapers[i], Stats>>

\* C23 as stated: the mutable state of the fetch pipeline (request
\* timestamps, consecutive-error counter, failed-proxy set, proxy pool,
\* statistics) is private to one fetcher: a step of one instance or run
\* never changes a value observed through the other, and no process-wide
\* state (the class attributes of Stats) is written.
C23_Claim ==
    [][/\ \A i \in Instances :
            actor'.last # i => Observed(i)' = Observed(i)
       /\ Stats' = Stats]_vars

====
